---- MODULE Spec2Model ----
(***************************************************************************)
(* GeneralContext of hyni_ts (src/src/example.ts): the schema-driven       *)
(* context engine.  A Context is built over a provider schema and a        *)
(* configuration; its mutators validate and store, buildRequest assembles  *)
(* the provider request from the stored state.                             *)
(*                                                                         *)
(* JavaScript values are modelled as tagged records:                       *)
(*   [t |-> "undef"]            undefined                                  *)
(*   [t |-> "null"]             null                                       *)
(*   [t |-> "bool", v |-> b]    a boolean                                  *)
(*   [t |-> "num", v, half]     the number v (+ 1/2 when half)             *)
(*   [t |-> "nan"]              NaN (typeof 'number')                      *)
(*   [t |-> "str", v |-> s]     a string, s its sequence of characters     *)
(*   [t |-> "arr", v |-> s]     an array, s the sequence of its elements   *)
(*   [t |-> "obj", v |-> f]     an object, f a function from its keys      *)
(* Object keys and Map keys are TLA+ strings.  Objects are values here, so *)
(* every in-place mutation of an object that several owners reference is   *)
(* written out for each owner (see buildRequest).                          *)
(***************************************************************************)
EXTENDS Integers, Sequences, FiniteSets, TLC

\* ------------------------------------------------------------------ values

Undef == [t |-> "undef"]

Null == [t |-> "null"]

NaN == [t |-> "nan"]

Bool(b) == [t |-> "bool", v |-> b]

Num(n) == [t |-> "num", v |-> n, half |-> FALSE]

NumHalf(n) == [t |-> "num", v |-> n, half |-> TRUE]

Str(s) == [t |-> "str", v |-> s]

Arr(s) == [t |-> "arr", v |-> s]

Obj(f) == [t |-> "obj", v |-> f]

EmptyMap == [k \in {} |-> Null]

\* obj[k] = x on a function from keys
Put(f, k, x) == [kk \in (DOMAIN f) \cup {k} |-> IF kk = k THEN x ELSE f[kk]]

\* delete obj[k]
Del(f, k) == [kk \in (DOMAIN f) \ {k} |-> f[kk]]

\* typeof x === 'number'
IsNumber(x) == x.t \in {"num", "nan"}

\* Number.isInteger(x)
IsInteger(x) == x.t = "num" /\ ~x.half

\* twice the value of a (non-NaN) number
Twice(x) == 2 * x.v + (IF x.half THEN 1 ELSE 0)

\* a < b on JavaScript values that are numbers: false when either is NaN
NumLess(a, b) == a.t = "num" /\ b.t = "num" /\ Twice(a) < Twice(b)

\* the truthiness of a JavaScript value (if (x) ...)
Truthy(x) ==
    CASE x.t \in {"undef", "null", "nan"} -> FALSE
      [] x.t = "bool" -> x.v
      [] x.t = "num" -> Twice(x) # 0
      [] x.t = "str" -> Len(x.v) > 0
      [] OTHER -> TRUE

RECURSIVE JsonClone(_)
\* JSON.parse(JSON.stringify(x)): a structural copy; NaN becomes null, an
\* undefined object field is dropped, an undefined array element becomes null
JsonClone(x) ==
    CASE x.t = "nan" -> Null
      [] x.t = "arr" ->
            Arr([i \in DOMAIN x.v |->
                    IF x.v[i].t = "undef" THEN Null ELSE JsonClone(x.v[i])])
      [] x.t = "obj" ->
            Obj([k \in {kk \in DOMAIN x.v : x.v[kk].t # "undef"} |->
                    JsonClone(x.v[k])])
      [] OTHER -> x

RECURSIVE HasNullField(_)
\* some object in the graph of x has a field whose value is null
HasNullField(x) ==
    CASE x.t = "arr" -> \E i \in DOMAIN x.v : HasNullField(x.v[i])
      [] x.t = "obj" ->
            \E k \in DOMAIN x.v : x.v[k].t = "null" \/ HasNullField(x.v[k])
      [] OTHER -> FALSE

RECURSIVE removeNullsSkippingArrays(_)
\* a removal that forgets to walk arrays
removeNullsSkippingArrays(x) ==
    CASE x.t = "obj" ->
            Obj([k \in {kk \in DOMAIN x.v : x.v[kk].t # "null"} |->
                    removeNullsSkippingArrays(x.v[k])])
      [] OTHER -> x

RECURSIVE removeNullsRecursive(_)
\* the value an object graph holds after removeNullsRecursive(x) has walked
\* it: arrays are walked and keep their elements, an object loses every key
\* whose value is null and its other values are walked
removeNullsRecursive(x) ==
    CASE x.t = "arr" -> Arr([i \in DOMAIN x.v |-> removeNullsRecursive(x.v[i])])
      [] x.t = "obj" ->
            Obj([k \in {kk \in DOMAIN x.v : x.v[kk].t # "null"} |->
                    removeNullsRecursive(x.v[k])])
      [] OTHER -> x

\* ----------------------------------------------------------------- strings

\* s has p at position i
MatchesAt(s, i, p) ==
    /\ i + Len(p) - 1 <= Len(s)
    /\ \A j \in 1..Len(p) : s[i + j - 1] = p[j]

\* s contains p
Includes(s, p) == \E i \in 1..(Len(s) + 1) : MatchesAt(s, i, p)

RECURSIVE ExpandReplacement(_, _, _, _, _)
\* String.prototype.replace's expansion of the replacement string repl (from
\* its position j) for the match of length m found at position i of s: $$ is
\* a dollar sign, $& the matched text and $' the text after the match; a
\* pattern without capture groups leaves $1..$9 as they are.  (The fourth
\* pattern, a dollar sign and a backquote for the text before the match, is
\* left out: no string of the model holds a backquote.)
ExpandReplacement(repl, j, s, i, m) ==
    IF j > Len(repl) THEN << >>
    ELSE IF repl[j] = "$" /\ j < Len(repl) /\ repl[j + 1] \in {"$", "&", "'"}
    THEN (CASE repl[j + 1] = "$" -> <<"$">>
            [] repl[j + 1] = "&" -> SubSeq(s, i, i + m - 1)
            [] OTHER -> SubSeq(s, i + m, Len(s)))
         \o ExpandReplacement(repl, j + 2, s, i, m)
    ELSE <<repl[j]>> \o ExpandReplacement(repl, j + 1, s, i, m)

RECURSIVE ReplaceFrom(_, _, _, _)
ReplaceFrom(s, i, p, repl) ==
    IF i > Len(s) THEN << >>
    ELSE IF MatchesAt(s, i, p)
    THEN ExpandReplacement(repl, 1, s, i, Len(p)) \o ReplaceFrom(s, i + Len(p), p, repl)
    ELSE <<s[i]>> \o ReplaceFrom(s, i + 1, p, repl)

\* s.replace(new RegExp(p, 'g'), repl), for a pattern p of characters that
\* are not special in a regular expression (and p not empty)
RegExpReplaceAll(s, p, repl) == ReplaceFrom(s, 1, p, repl)

\* ------------------------------------------------- schemas and configurations
\* The schema documents and configurations a Context is constructed over are
\* inputs; the ones below follow the four provider shapes the repository
\* names (OpenAI, Claude, DeepSeek and a bare one).

user == <<"u", "s", "e", "r">>

assistant == <<"a", "s", "s", "t">>

system == <<"s", "y", "s", "t", "e", "m">>

tool == <<"t", "o", "o", "l">>

TEXT_CONTENT == <<"<", "T", "E", "X", "T", "_", "C", "O", "N", "T", "E", "N", "T", ">">>

ModelA == <<"m", "1">>

ModelB == <<"m", "2">>

ModelUnlisted == <<"m", "x">>

\* the constraint records of schema.parameters (SchemaParameter); an absent
\* min, max or enum is Undef, an absent max_length is 0
ParamDef(type, min, max, enum, max_length) ==
    [type |-> type, min |-> min, max |-> max, enum |-> enum, max_length |-> max_length]

SchemaParameters ==
    [temperature |-> ParamDef("number", Num(0), Num(2), Undef, 0),
     max_tokens  |-> ParamDef("integer", Num(1), Num(4), Undef, 0),
     stream      |-> ParamDef("boolean", Undef, Undef, Undef, 0),
     effort      |-> ParamDef("string", Undef, Undef,
                              Arr(<<Str(<<"l", "o">>), Str(<<"h", "i">>)>>), 2)]

KeyPlaceholder == <<"<", "K", ">">>

\* the keys of the response documents
KeyChoices == <<"c", "h", "o", "i", "c", "e", "s">>

KeyContent == <<"c", "o", "n", "t", "e", "n", "t">>

KeyText == <<"t", "e", "x", "t">>

KeyLength == <<"l", "e", "n", "g", "t", "h">>

\* OpenAI shape: system is a role, content is an array of blocks, images go
\* into image_url; the templates carry null placeholders
SchemaOpenAI ==
    [name |-> <<"o", "a", "i">>,
     models |-> [available |-> <<ModelA, ModelB>>, default |-> ModelA],
     message_roles |-> <<system, user, assistant>>,
     system_message_supported |-> TRUE,
     multimodal_supported |-> TRUE,
     streaming |-> TRUE,
     structure |-> Obj([role |-> Str(<< >>), content |-> Arr(<< >>), name |-> Null]),
     text |-> Obj([type |-> Str(<<"t">>), text |-> Str(<< >>)]),
     image |-> Obj([type |-> Str(<<"i">>), image_url |-> Obj([url |-> Str(<< >>)])]),
     request_template |->
        Obj([model |-> Str(<< >>), messages |-> Arr(<< >>), max_tokens |-> Null,
             temperature |-> Null, stream |-> Bool(FALSE),
             stop |-> Arr(<<Null>>), response_format |-> Obj([type |-> Null])]),
     parameters |-> SchemaParameters,
     key_placeholder |-> KeyPlaceholder,
     headers_required |-> [Authorization |-> <<"B", " ", "<", "K", ">">>],
     headers_optional |-> [Organization |-> << >>],
     text_path |-> <<Str(KeyChoices), Num(0), Str(KeyText)>>]

\* Claude shape: system is not a role but a sibling field, images go into source
SchemaClaude ==
    [name |-> <<"c", "l">>,
     models |-> [available |-> <<ModelA, ModelB>>, default |-> ModelA],
     message_roles |-> <<user, assistant>>,
     system_message_supported |-> TRUE,
     multimodal_supported |-> TRUE,
     streaming |-> TRUE,
     structure |-> Obj([role |-> Str(<< >>), content |-> Arr(<< >>)]),
     text |-> Obj([type |-> Str(<<"t">>), text |-> Str(<< >>)]),
     image |-> Obj([type |-> Str(<<"i">>),
                    source |-> Obj([type |-> Str(<<"b">>), media_type |-> Str(<< >>),
                                    data |-> Str(<< >>)])]),
     request_template |->
        Obj([model |-> Str(<< >>), messages |-> Arr(<< >>), system |-> Null]),
     parameters |-> SchemaParameters,
     key_placeholder |-> KeyPlaceholder,
     headers_required |-> [xapikey |-> <<"<", "K", ">">>, version |-> <<"v", "1">>],
     headers_optional |-> [beta |-> <<"b", "1">>],
     text_path |-> <<Str(KeyContent), Str(<<"0">>), Str(KeyText)>>]

\* DeepSeek shape: flat string content, no multimodal support
SchemaDeepSeek ==
    [name |-> <<"d", "s">>,
     models |-> [available |-> <<ModelA, ModelB>>, default |-> ModelA],
     message_roles |-> <<system, user, assistant>>,
     system_message_supported |-> TRUE,
     multimodal_supported |-> FALSE,
     streaming |-> TRUE,
     structure |-> Obj([role |-> Str(<< >>), content |-> Str(TEXT_CONTENT)]),
     text |-> Obj([type |-> Str(<<"t">>), text |-> Str(<< >>)]),
     image |-> Undef,
     request_template |->
        Obj([model |-> Str(<< >>), messages |-> Arr(<< >>), stream |-> Bool(FALSE)]),
     parameters |-> SchemaParameters,
     key_placeholder |-> KeyPlaceholder,
     headers_required |-> [Authorization |-> <<"B", " ", "<", "K", ">">>],
     headers_optional |-> EmptyMap,
     text_path |-> <<Str(KeyChoices), Num(0), Str(KeyText)>>]

\* a bare schema: no role list, no system message, no multimodal support, no
\* streaming, no parameter records, no default model; the key placeholder
\* occurs twice
SchemaBare ==
    [name |-> <<"b">>,
     models |-> [available |-> <<ModelA, ModelB>>, default |-> << >>],
     message_roles |-> << >>,
     system_message_supported |-> FALSE,
     multimodal_supported |-> FALSE,
     streaming |-> FALSE,
     structure |-> Obj([role |-> Str(<< >>), content |-> Arr(<< >>)]),
     text |-> Obj([type |-> Str(<<"t">>), text |-> Str(<< >>)]),
     image |-> Obj([type |-> Str(<<"i">>), image_url |-> Obj([url |-> Str(<< >>)])]),
     request_template |-> Obj([model |-> Str(<< >>), messages |-> Arr(<< >>)]),
     parameters |-> EmptyMap,
     key_placeholder |-> KeyPlaceholder,
     headers_required |-> [Authorization |-> <<"<", "K", ">", ":", "<", "K", ">">>],
     headers_optional |-> EmptyMap,
     text_path |-> <<Str(KeyText)>>]

\* ContextConfig after the constructor's defaults: an absent default is Undef
Config(validation, maxTokens, temperature) ==
    [enableValidation |-> validation, defaultMaxTokens |-> maxTokens,
     defaultTemperature |-> temperature]

ConfigPlain == Config(TRUE, Undef, Undef)

ConfigDefaults == Config(TRUE, Num(3), NumHalf(0))

ConfigLax == Config(FALSE, Num(3), Undef)

\* the schema documents and the configurations, by name
SchemaNamed(n) ==
    CASE n = "OpenAI" -> SchemaOpenAI
      [] n = "Claude" -> SchemaClaude
      [] n = "DeepSeek" -> SchemaDeepSeek
      [] OTHER -> SchemaBare

ConfigNamed(n) ==
    CASE n = "Plain" -> ConfigPlain
      [] n = "Defaults" -> ConfigDefaults
      [] OTHER -> ConfigLax

\* the (schema, configuration) pairs Contexts are constructed over
Constructions ==
    { <<"OpenAI", "Defaults">>, <<"Claude", "Defaults">>, <<"DeepSeek", "Defaults">>,
      <<"DeepSeek", "Lax">>, <<"Bare", "Plain">>, <<"Bare", "Lax">> }

\* ------------------------------------------------------- the Context: helpers

\* cacheSchemaElements: validRoles = new Set(schema.message_roles)
validRoles(schema) == {schema.message_roles[i] : i \in DOMAIN schema.message_roles}

\* cacheSchemaElements: the deep clones of the schema's templates
requestTemplate(schema) == JsonClone(schema.request_template)

messageStructure(schema) == JsonClone(schema.structure)

supportsMultimodal(schema) == schema.multimodal_supported

supportsSystemMessages(schema) == schema.system_message_supported

\* buildHeaders: the header map is cleared and rebuilt: every required header
\* with the key placeholder replaced, then every non-empty optional header
buildHeaders(schema, apiKey) ==
    LET req == schema.headers_required
        opt == schema.headers_optional
        set == {h \in DOMAIN opt : Len(opt[h]) > 0}
    IN  [h \in (DOMAIN req) \cup set |->
            IF h \in set THEN opt[h]
            ELSE IF Len(schema.key_placeholder) > 0
            THEN RegExpReplaceAll(req[h], schema.key_placeholder, apiKey)
            ELSE req[h]]

\* Array.prototype.includes on primitive values: an object or an array is
\* never the same reference as a member of the schema's list
ArrayIncludes(arr, x) ==
    /\ x.t \notin {"obj", "arr"}
    /\ \E i \in DOMAIN arr.v : arr.v[i] = x

\* the type switch of validateParameter
TypeMatches(type, value) ==
    CASE type = "integer" -> IsInteger(value)
      [] type \in {"float", "number"} -> IsNumber(value)
      [] type = "string" -> value.t = "str"
      [] type = "boolean" -> value.t = "bool"
      [] type = "array" -> value.t = "arr"
      [] OTHER -> FALSE

\* validateParameter: TRUE when it returns, FALSE when it throws
\* ValidationException
validateParameter(schema, key, value) ==
    IF value.t \in {"null", "undef"} THEN FALSE
    ELSE IF key \notin DOMAIN schema.parameters THEN TRUE
    ELSE LET paramDef == schema.parameters[key]
         IN  /\ ~(value.t = "str" /\ paramDef.max_length # 0
                    /\ Len(value.v) > paramDef.max_length)
             /\ ~(Truthy(paramDef.enum) /\ ~ArrayIncludes(paramDef.enum, value))
             /\ ~(paramDef.type # "" /\ ~TypeMatches(paramDef.type, value))
             /\ ~(IsNumber(value) /\ paramDef.min.t # "undef"
                    /\ NumLess(value, paramDef.min))
             /\ ~(IsNumber(value) /\ paramDef.max.t # "undef"
                    /\ NumLess(paramDef.max, value))

Base64Alphabet ==
    { "A", "B", "C", "D", "E", "F", "G", "H", "I", "J", "K", "L", "M",
      "N", "O", "P", "Q", "R", "S", "T", "U", "V", "W", "X", "Y", "Z",
      "a", "b", "c", "d", "e", "f", "g", "h", "i", "j", "k", "l", "m",
      "n", "o", "p", "q", "r", "s", "t", "u", "v", "w", "x", "y", "z",
      "0", "1", "2", "3", "4", "5", "6", "7", "8", "9", "+", "/" }

Whitespace == {" "}

\* data.replace(/\s/g, '')
StripWhitespace(s) == SelectSeq(s, LAMBDA c : c \notin Whitespace)

\* /^[A-Za-z0-9+/]*={0,2}$/.test(s)
IsBase64Text(s) ==
    \E pad \in 0..2 :
        /\ pad <= Len(s)
        /\ \A i \in 1..Len(s) :
              IF i > Len(s) - pad THEN s[i] = "=" ELSE s[i] \in Base64Alphabet

DataPrefix == <<"d", "a", "t", "a", ":">>

Base64Marker == <<";", "b", "a", "s", "e", "6", "4", ",">>

\* isBase64Encoded
isBase64Encoded(data) ==
    IF Len(data) = 0 THEN FALSE
    ELSE IF MatchesAt(data, 1, DataPrefix) /\ Includes(data, Base64Marker) THEN TRUE
    ELSE LET cleanData == StripWhitespace(data)
         IN  IsBase64Text(cleanData) /\ Len(cleanData) % 4 = 0

\* ------------------------------------------------------ the message compiler
\* An operation that may throw yields [err |-> e, val |-> v]: e is "" when it
\* returns v, else the name of the exception and v is not used.

Returns(v) == [err |-> "", val |-> v]

Throws(e) == [err |-> e, val |-> Undef]

\* this.schema.message_format.structure as it is when it is read: the
\* document's structure at construction, or what the document's owner has
\* put in its place since (live_structure)
LiveStructure(schema) ==
    IF "live_structure" \in DOMAIN schema THEN schema.live_structure
    ELSE schema.structure

\* this.schema.message_format.structure.content === '<TEXT_CONTENT>', read
\* from the schema document and not from the cached messageStructure
IsFlatContent(schema) ==
    LET structure == LiveStructure(schema)
    IN  /\ structure.t = "obj"
        /\ "content" \in DOMAIN structure.v
        /\ structure.v["content"].t = "str"
        /\ structure.v["content"].v = TEXT_CONTENT

\* createTextContent
createTextContent(schema, text) ==
    Obj(Put(JsonClone(schema.text).v, "text", Str(text)))

\* createImageContent; JSON.parse of an absent image template and
\* encodeImageToBase64 throw a plain Error
createImageContent(schema, mediaType, data) ==
    IF schema.image.t # "obj" THEN Throws("Error")
    ELSE LET content == JsonClone(schema.image).v
         IN  IF "source" \in DOMAIN content
             THEN IF isBase64Encoded(data)
                  THEN Returns(Obj(Put(content, "source",
                          Obj(Put(Put(content["source"].v, "media_type", Str(mediaType)),
                                  "data", Str(data))))))
                  ELSE Throws("Error")
             ELSE IF "image_url" \in DOMAIN content
             THEN IF isBase64Encoded(data)
                  THEN Returns(Obj(Put(content, "image_url",
                          Obj(Put(content["image_url"].v, "url",
                                  Str(DataPrefix \o mediaType \o Base64Marker \o data))))))
                  ELSE Throws("Error")
             ELSE Returns(Obj(content))

\* createMessage(role, content, mediaType?, mediaData?): an absent media
\* argument is the empty string
createMessage(schema, config, role, content, mediaType, mediaData) ==
    LET message == Put(messageStructure(schema).v, "role", Str(role))
    IN  IF IsFlatContent(schema)
        THEN Returns(Obj(Put(message, "content", Str(content))))
        ELSE LET textBlock == createTextContent(schema, content)
             IN  IF Len(mediaType) > 0 /\ Len(mediaData) > 0
                 THEN IF ~supportsMultimodal(schema) /\ config.enableValidation
                      THEN Throws("ValidationException")
                      ELSE LET image == createImageContent(schema, mediaType, mediaData)
                           IN  IF image.err # "" THEN image
                               ELSE Returns(Obj(Put(message, "content",
                                                    Arr(<<textBlock, image.val>>))))
                 ELSE Returns(Obj(Put(message, "content", Arr(<<textBlock>>))))

\* a validateMessage that accepts every role
validateMessageAnyRole(schema, message) ==
    "role" \in DOMAIN message.v /\ "content" \in DOMAIN message.v

\* validateMessage: TRUE when it returns, FALSE when it throws
validateMessage(schema, message) ==
    /\ "role" \in DOMAIN message.v /\ "content" \in DOMAIN message.v
    /\ ~(validRoles(schema) # {} /\ message.v["role"].v \notin validRoles(schema))

\* ---------------------------------------------------- the Context: operations
\* The state of a Context is the record
\*   [modelName, systemMessage, messages, parameters, apiKey, headers];
\* an operation yields [err, val]: val is the state the Context is left in,
\* whether the operation returned (err = "") or threw (err names the exception).

Left(e, c) == [err |-> e, val |-> c]

\* applyDefaults
applyDefaults(schema, c) ==
    IF Len(schema.models.default) > 0
    THEN [c EXCEPT !.modelName = schema.models.default]
    ELSE c

\* the field initialisers and initialize(): cacheSchemaElements, applyDefaults,
\* buildHeaders
NewContext(schema) ==
    LET c0 == [modelName |-> << >>, systemMessage |-> Undef, messages |-> << >>,
               parameters |-> EmptyMap, apiKey |-> << >>, headers |-> EmptyMap]
        c1 == applyDefaults(schema, c0)
    IN  [c1 EXCEPT !.headers = buildHeaders(schema, c1.apiKey)]

\* a setModel that checks the list whatever the configuration says
setModelAlwaysChecked(schema, config, c, model) ==
    IF \A i \in DOMAIN schema.models.available : schema.models.available[i] # model
    THEN Left("ValidationException", c)
    ELSE Left("", [c EXCEPT !.modelName = model])

\* setModel
setModel(schema, config, c, model) ==
    IF /\ \A i \in DOMAIN schema.models.available : schema.models.available[i] # model
       /\ config.enableValidation
    THEN Left("ValidationException", c)
    ELSE Left("", [c EXCEPT !.modelName = model])

\* setSystemMessage
setSystemMessage(schema, config, c, systemText) ==
    IF ~supportsSystemMessages(schema) /\ config.enableValidation
    THEN Left("ValidationException", c)
    ELSE Left("", [c EXCEPT !.systemMessage = Str(systemText)])

\* setParameter
setParameter(schema, config, c, key, value) ==
    IF config.enableValidation /\ ~validateParameter(schema, key, value)
    THEN Left("ValidationException", c)
    ELSE Left("", [c EXCEPT !.parameters = Put(@, key, value)])

RECURSIVE setParametersFrom(_, _, _, _, _)
\* setParameters over Object.entries(params), from entry i on: each entry is
\* stored by setParameter before the next is looked at
setParametersFrom(schema, config, c, entries, i) ==
    IF i > Len(entries) THEN Left("", c)
    ELSE LET r == setParameter(schema, config, c, entries[i][1], entries[i][2])
         IN  IF r.err # "" THEN r
             ELSE setParametersFrom(schema, config, r.val, entries, i + 1)

\* setParameters(params): entries is Object.entries(params), in insertion order
setParameters(schema, config, c, entries) ==
    setParametersFrom(schema, config, c, entries, 1)

\* setApiKey
setApiKey(schema, config, c, apiKey) ==
    IF Len(apiKey) = 0 THEN Left("ValidationException", c)
    ELSE Left("", [c EXCEPT !.apiKey = apiKey,
                            !.headers = buildHeaders(schema, apiKey)])

\* addMessage
addMessage(schema, config, c, role, content, mediaType, mediaData) ==
    LET message == createMessage(schema, config, role, content, mediaType, mediaData)
    IN  IF message.err # "" THEN Left(message.err, c)
        ELSE IF config.enableValidation /\ ~validateMessage(schema, message.val)
        THEN Left("ValidationException", c)
        ELSE Left("", [c EXCEPT !.messages = Append(@, message.val)])

\* hasApiKey()
hasApiKey(c) == c.apiKey # << >>

\* clearUserMessages
clearUserMessages(c) == [c EXCEPT !.messages = << >>]

\* clearSystemMessage
clearSystemMessage(c) == [c EXCEPT !.systemMessage = Undef]

\* clearParameters
clearParameters(c) == [c EXCEPT !.parameters = EmptyMap]

\* a reset that forgets the parameters
resetKeepingParameters(schema, c) ==
    applyDefaults(schema,
        [clearSystemMessage(clearUserMessages(c)) EXCEPT !.modelName = << >>])

\* reset
reset(schema, c) ==
    applyDefaults(schema,
        [clearParameters(clearSystemMessage(clearUserMessages(c)))
            EXCEPT !.modelName = << >>])

\* an importState that takes the API key of the state even when it is empty
importStateAnyKey(schema, c, state) ==
    [c EXCEPT !.modelName = state.modelName.v,
              !.systemMessage = state.systemMessage,
              !.messages = state.messages.v,
              !.parameters = state.parameters.v,
              !.apiKey = state.apiKey.v,
              !.headers = buildHeaders(schema, state.apiKey.v)]

\* importState(state): state is an object with the fields of exportState;
\* modelName and apiKey are strings, parameters an object, messages an array
importState(schema, c, state) ==
    LET c1 == IF Truthy(state.modelName)
              THEN [c EXCEPT !.modelName = state.modelName.v] ELSE c
        c2 == IF Truthy(state.systemMessage)
              THEN [c1 EXCEPT !.systemMessage = state.systemMessage] ELSE c1
        c3 == IF Truthy(state.messages)
              THEN [c2 EXCEPT !.messages = state.messages.v] ELSE c2
        c4 == IF Truthy(state.parameters)
              THEN [c3 EXCEPT !.parameters = state.parameters.v] ELSE c3
    IN  IF Truthy(state.apiKey)
        THEN [c4 EXCEPT !.apiKey = state.apiKey.v,
                        !.headers = buildHeaders(schema, state.apiKey.v)]
        ELSE c4

\* exportState(): parameters is a new object that holds the stored values;
\* messages is the stored array
exportState(c) ==
    [modelName |-> Str(c.modelName), systemMessage |-> c.systemMessage,
     messages |-> Arr(c.messages), parameters |-> Obj(c.parameters),
     apiKey |-> Str(c.apiKey)]

\* -------------------------------------------------------- the request builder

\* request.model, and the system message as a sibling field when system is
\* not a role
SetModelAndSystem(schema, c, request) ==
    LET r1 == IF Len(c.modelName) > 0
              THEN Put(request, "model", Str(c.modelName)) ELSE request
    IN  IF /\ Truthy(c.systemMessage) /\ supportsSystemMessages(schema)
           /\ system \notin validRoles(schema)
        THEN Put(r1, "system", c.systemMessage)
        ELSE r1

\* a messages array that gets the system message at its end
MessagesArraySystemLast(schema, config, c) ==
    IF /\ Truthy(c.systemMessage) /\ supportsSystemMessages(schema)
       /\ system \in validRoles(schema)
    THEN c.messages \o
         <<createMessage(schema, config, system, c.systemMessage.v, << >>, << >>).val>>
    ELSE c.messages

\* messagesArray: a copy of the stored messages, with the compiled system
\* message put in front when system is a role
MessagesArray(schema, config, c) ==
    IF /\ Truthy(c.systemMessage) /\ supportsSystemMessages(schema)
       /\ system \in validRoles(schema)
    THEN <<createMessage(schema, config, system, c.systemMessage.v, << >>, << >>).val>>
         \o c.messages
    ELSE c.messages

\* an application of the parameters that keeps a field the request already has
ApplyParametersTemplateWins(c, request) ==
    [k \in (DOMAIN request) \cup (DOMAIN c.parameters) |->
        IF k \in DOMAIN request THEN request[k] ELSE c.parameters[k]]

\* for (const [key, value] of this.parameters) request[key] = value
ApplyParameters(c, request) ==
    [k \in (DOMAIN request) \cup (DOMAIN c.parameters) |->
        IF k \in DOMAIN c.parameters THEN c.parameters[k] ELSE request[k]]

\* the two configuration defaults
ApplyConfigDefaults(config, request) ==
    LET r1 == IF Truthy(config.defaultMaxTokens) /\ "max_tokens" \notin DOMAIN request
              THEN Put(request, "max_tokens", config.defaultMaxTokens) ELSE request
    IN  IF Truthy(config.defaultTemperature) /\ "temperature" \notin DOMAIN r1
        THEN Put(r1, "temperature", config.defaultTemperature) ELSE r1

\* a stream resolution in which the streaming argument wins
ResolveStreamArgumentWins(schema, c, request, streaming) ==
    Put(request, "stream", Bool(streaming /\ schema.streaming))

\* the stream flag: a stored stream parameter is left as applied
ResolveStream(schema, c, request, streaming) ==
    IF "stream" \notin DOMAIN c.parameters
    THEN Put(request, "stream", Bool(streaming /\ schema.streaming))
    ELSE request

\* the request object before removeNullsRecursive walks it
AssembleRequest(schema, config, c, streaming) ==
    LET r1 == SetModelAndSystem(schema, c, requestTemplate(schema).v)
        r2 == Put(r1, "messages", Arr(MessagesArray(schema, config, c)))
        r3 == ApplyParameters(c, r2)
        r4 == ApplyConfigDefaults(config, r3)
    IN  Obj(ResolveStream(schema, c, r4, streaming))

\* the stored state after removeNullsRecursive(request): the request holds
\* the stored message objects (unless a parameter named messages replaced the
\* array) and the stored parameter values themselves, not copies, so the
\* walk deletes their null fields too
StateAfterBuild(c) ==
    [c EXCEPT
        !.messages = IF "messages" \in DOMAIN c.parameters THEN @
                     ELSE [i \in DOMAIN @ |-> removeNullsRecursive(@[i])],
        !.parameters = [k \in DOMAIN @ |-> removeNullsRecursive(@[k])]]

\* a buildRequest that puts the system message in the stored array itself
buildRequestOnStoredArray(schema, config, c, streaming) ==
    [request |-> removeNullsRecursive(AssembleRequest(schema, config, c, streaming)),
     val |-> StateAfterBuild([c EXCEPT !.messages = MessagesArray(schema, config, c)])]

\* buildRequest(streaming): the object returned and the state it leaves
buildRequest(schema, config, c, streaming) ==
    [request |-> removeNullsRecursive(AssembleRequest(schema, config, c, streaming)),
     val |-> StateAfterBuild(c)]

\* ------------------------------------------------------ the schema document

\* obj[k]: undefined when obj has no such key
Get(obj, k) == IF k \in DOMAIN obj.v THEN obj.v[k] ELSE Undef

\* the fields validateSchema requires to be present
requiredFields ==
    <<"provider", "api", "request_template", "message_format", "response_format">>

\* validateSchema on a schema document whose blocks, when present, are objects
validateSchema(document) ==
    IF \E i \in DOMAIN requiredFields : requiredFields[i] \notin DOMAIN document.v
    THEN Throws("SchemaException")
    ELSE IF ~Truthy(Get(document.v["api"], "endpoint"))
    THEN Throws("SchemaException")
    ELSE IF \/ ~Truthy(Get(document.v["message_format"], "structure"))
            \/ ~Truthy(Get(document.v["message_format"], "content_types"))
    THEN Throws("SchemaException")
    ELSE IF \/ ~Truthy(Get(document.v["response_format"], "success"))
            \/ ~Truthy(Get(Get(document.v["response_format"], "success"), "text_path"))
    THEN Throws("SchemaException")
    ELSE Returns(document)

\* ------------------------------------------------------ the response readers

\* the property name a string names: object keys are written as TLA+ strings
PropertyName(s) ==
    CASE s = KeyChoices -> "choices"
      [] s = KeyContent -> "content"
      [] s = KeyText -> "text"
      [] s = KeyLength -> "length"
      [] s = <<"0">> -> "0"
      [] s = <<"1">> -> "1"
      [] s = <<"-", "1">> -> "-1"
      [] OTHER -> "?"

Digits == <<"0", "1", "2", "3", "4", "5", "6", "7", "8", "9">>

\* /^\d+$/.test(s)
IsDigitsOnly(s) ==
    Len(s) > 0 /\ \A i \in DOMAIN s : \E d \in DOMAIN Digits : Digits[d] = s[i]

\* the value of the digit c
DigitValue(c) == (CHOOSE d \in DOMAIN Digits : Digits[d] = c) - 1

RECURSIVE ParseInt(_)
\* parseInt(s, 10) on a string of digits
ParseInt(s) ==
    IF Len(s) = 0 THEN 0
    ELSE 10 * ParseInt(SubSeq(s, 1, Len(s) - 1)) + DigitValue(s[Len(s)])

RECURSIVE NatString(_)
\* String(n) for a natural number n
NatString(n) ==
    IF n < 10 THEN <<Digits[n + 1]>>
    ELSE NatString(n \div 10) \o <<Digits[(n % 10) + 1]>>

RECURSIVE JsString(_)
\* String(x)
JsString(x) ==
    CASE x.t = "str" -> x.v
      [] x.t = "undef" -> <<"u", "n", "d", "e", "f", "i", "n", "e", "d">>
      [] x.t = "null" -> <<"n", "u", "l", "l">>
      [] x.t = "nan" -> <<"N", "a", "N">>
      [] x.t = "bool" -> IF x.v THEN <<"t", "r", "u", "e">>
                         ELSE <<"f", "a", "l", "s", "e">>
      [] x.t = "num" ->
            IF Twice(x) >= 0
            THEN NatString(x.v) \o (IF x.half THEN <<".", "5">> ELSE << >>)
            ELSE <<"-">> \o (IF x.half THEN NatString(0 - x.v - 1) \o <<".", "5">>
                             ELSE NatString(0 - x.v))
      [] x.t = "arr" ->
            LET Item(i) == IF x.v[i].t \in {"undef", "null"} THEN << >>
                           ELSE JsString(x.v[i])
                Join[i \in 0..Len(x.v)] ==
                    IF i = 0 THEN << >>
                    ELSE IF i = 1 THEN Item(1)
                    ELSE Join[i - 1] \o <<",">> \o Item(i)
            IN  Join[Len(x.v)]
      [] OTHER -> <<"[", "o", "b", "j", "e", "c", "t", " ", "O", "b", "j", "e", "c", "t", "]">>

\* one step of resolvePath from the value current: key is a number or a string
ResolveStep(current, key) ==
    IF key.t = "num" \/ IsDigitsOnly(key.v)
    THEN LET index == IF key.t = "num" THEN key.v ELSE ParseInt(key.v)
         IN  IF current.t # "arr" \/ index >= Len(current.v)
             THEN Throws("Error")
             ELSE IF index >= 0 THEN Returns(current.v[index + 1])
             ELSE Returns(Undef)
    ELSE IF current.t \notin {"obj", "arr", "null"} THEN Throws("Error")
    ELSE IF current.t = "null" THEN Throws("TypeError")
    ELSE IF current.t = "arr"
         THEN IF key.v = KeyLength THEN Returns(Num(Len(current.v)))
              ELSE Throws("Error")
    ELSE IF PropertyName(key.v) \in DOMAIN current.v
         THEN Returns(current.v[PropertyName(key.v)])
         ELSE Throws("Error")

RECURSIVE resolvePathFrom(_, _, _)
\* the loop of resolvePath from step i on
resolvePathFrom(current, path, i) ==
    IF i > Len(path) THEN Returns(current)
    ELSE LET r == ResolveStep(current, path[i])
         IN  IF r.err # "" THEN r ELSE resolvePathFrom(r.val, path, i + 1)

\* an extractTextResponse that answers the empty string when the path fails
extractTextResponseOrEmpty(schema, response) ==
    LET r == resolvePathFrom(response, schema.text_path, 1)
    IN  IF r.err # "" THEN Returns(Str(<< >>)) ELSE Returns(Str(JsString(r.val)))

\* resolvePath(obj, path)
resolvePath(obj, path) == resolvePathFrom(obj, path, 1)

\* extractTextResponse(response): every error of the resolution is caught
\* and thrown again as an Error
extractTextResponse(schema, response) ==
    LET r == resolvePath(response, schema.text_path)
    IN  IF r.err # "" THEN Throws("Error") ELSE Returns(Str(JsString(r.val)))

\* ------------------------------------------------------------------- bounds

\* the most stored messages and parameters, counted together, that a Context
\* is driven to hold
MaxStored == 2

\* the longest path resolvePath is given
MaxPath == 2

\* ------------------------------------------------------------------- inputs

SystemTexts == { <<"s">> }

Models == { ModelB, ModelUnlisted }

ApiKeys == { << >>, <<"a">>, <<"$", "&">> }

Roles == { user, tool }

Texts == { <<"h">> }

NoMedia == << << >>, << >> >>

\* (mediaType, mediaData): none, or base64 data
Media == { NoMedia, << <<"p">>, <<"Q", "U", "J", "D">> >> }

ParameterInputs ==
    { <<"temperature", Num(2)>>, <<"temperature", NumHalf(2)>>, <<"temperature", NaN>>,
      <<"max_tokens", Num(0)>>, <<"max_tokens", Num(1)>>,
      <<"stream", Bool(FALSE)>>, <<"stream", Null>>,
      <<"effort", Str(<<"h", "i">>)>>, <<"effort", Str(<<"m", "a", "x">>)>>,
      <<"extra", Obj([a |-> Null])>> }

\* Object.entries of the argument of setParameters
ParameterRecords ==
    { << <<"temperature", Num(2)>>, <<"max_tokens", Num(0)>> >>,
      << <<"stream", Bool(FALSE)>>, <<"max_tokens", Num(1)>> >> }

\* what exportState returns on a Context that was never touched and has no
\* default model
ExportedEmpty ==
    [modelName |-> Str(<< >>), systemMessage |-> Undef, messages |-> Arr(<< >>),
     parameters |-> Obj(EmptyMap), apiKey |-> Str(<< >>)]

\* what exportState returns on a Context over schema whose caller had
\* validation disabled
ExportedLax(schema) ==
    [modelName |-> Str(ModelB), systemMessage |-> Str(<<"s">>),
     messages |-> Arr(<<createMessage(schema, ConfigLax, user, <<"h">>, << >>, << >>).val>>),
     parameters |-> Obj([temperature |-> NumHalf(2)]),
     apiKey |-> Str(<<"a">>)]

ImportedStates(schema) == { ExportedEmpty, ExportedLax(schema) }

\* -------------------------------------------------------------------- state

VARIABLES
    built,      \* the Context's constructor arguments: the names of its schema
                \* document and of its configuration
    ctx,        \* modelName, systemMessage, messages, parameters, apiKey, headers
    last,       \* the last call: [op, arg, err]; err = "" when it returned
    request,    \* what the last call returned, when it was buildRequest
    doc,        \* the template fields of the schema document its owner has
                \* replaced since the Context was constructed
    peer,       \* a second Context and the objects it shares with the first
    returned,   \* what the last call returned, when it was a response reader
    chat,       \* the HyniChat page: its fields, its controls, the sends in flight
    keys,       \* the key store: sessionStorage, localStorage, API_KEY_CACHE
    asr,        \* the WStreamASRModule, its recorder and its pending callbacks
    wire        \* a streamed response: what was sent, what is still to be read

vars == <<built, ctx, last, request, doc, peer, returned, chat, keys, asr, wire>>

\* the page that uses the Context is not open
NoPage ==
    /\ chat = Undef
    /\ keys = Undef
    /\ asr = Undef
    /\ wire = Undef

\* this.schema: the Context holds a reference to the schema document, so it
\* sees the structure the document holds now
schema ==
    IF "structure" \in DOMAIN doc
    THEN Put(SchemaNamed(built[1]), "live_structure", doc["structure"])
    ELSE SchemaNamed(built[1])

\* this.config
config == ConfigNamed(built[2])

Call(op, arg, err) == [op |-> op, arg |-> arg, err |-> err]

Init ==
    /\ built \in Constructions
    /\ doc = EmptyMap
    /\ ctx = NewContext(schema)
    /\ last = Call("new", Undef, "")
    /\ request = Undef
    /\ peer = Undef
    /\ returned = Undef
    /\ NoPage

\* the Context c is within the bound
Fits(c) == Len(c.messages) + Cardinality(DOMAIN c.parameters) <= MaxStored

\* a mutator was called and left the Context in r.val, returning or throwing
Mutated(op, arg, r) ==
    /\ Fits(r.val)
    /\ ctx' = r.val
    /\ last' = Call(op, arg, r.err)
    /\ request' = Undef
    /\ UNCHANGED <<built, doc, peer, returned, chat, keys, asr, wire>>

SetModel ==
    \E model \in Models :
        Mutated("setModel", model, setModel(schema, config, ctx, model))

SetSystemMessage ==
    \E text \in SystemTexts :
        Mutated("setSystemMessage", text, setSystemMessage(schema, config, ctx, text))

SetParameter ==
    \E kv \in ParameterInputs :
        Mutated("setParameter", kv, setParameter(schema, config, ctx, kv[1], kv[2]))

SetParameters ==
    \E entries \in ParameterRecords :
        Mutated("setParameters", entries, setParameters(schema, config, ctx, entries))

SetApiKey ==
    \E key \in ApiKeys :
        Mutated("setApiKey", key, setApiKey(schema, config, ctx, key))

AddMessage ==
    \E role \in Roles, text \in Texts, media \in Media :
        Mutated("addMessage", <<role, text, media[1], media[2]>>,
                addMessage(schema, config, ctx, role, text, media[1], media[2]))

BuildRequest ==
    \E streaming \in BOOLEAN :
        LET r == buildRequest(schema, config, ctx, streaming)
        IN  /\ ctx' = r.val
            /\ request' = r.request
            /\ last' = Call("buildRequest", streaming, "")
            /\ UNCHANGED <<built, doc, peer, returned, chat, keys, asr, wire>>

Reset == Mutated("reset", Undef, Left("", reset(schema, ctx)))

ClearUserMessages ==
    Mutated("clearUserMessages", Undef, Left("", clearUserMessages(ctx)))

ClearSystemMessage ==
    Mutated("clearSystemMessage", Undef, Left("", clearSystemMessage(ctx)))

ClearParameters ==
    Mutated("clearParameters", Undef, Left("", clearParameters(ctx)))

ImportState ==
    \E state \in ImportedStates(schema) :
        Mutated("importState", state, Left("", importState(schema, ctx, state)))

Next ==
    \/ SetModel
    \/ SetSystemMessage
    \/ SetParameter
    \/ SetParameters
    \/ SetApiKey
    \/ AddMessage
    \/ BuildRequest
    \/ Reset
    \/ ClearUserMessages
    \/ ClearSystemMessage
    \/ ClearParameters
    \/ ImportState

Spec == Init /\ [][Next]_vars

\* ----------------------------------------------- the response readers driven

\* path steps: numbers (a negative one included), digit-only strings, keys
PathSteps ==
    { Num(0), Num(1), Num(0 - 1), Str(<<"0">>), Str(<<"1">>), Str(<<"-", "1">>),
      Str(KeyText) }

Paths == UNION { [1..n -> PathSteps] : n \in 0..MaxPath }

\* the values paths are resolved in
PathObjects ==
    { Arr(<<Str(<<"a">>), Arr(<<Str(<<"b">>)>>)>>),
      Arr(<< >>),
      Obj([text |-> Arr(<<Obj([text |-> Str(<<"h", "i">>)])>>)]),
      Obj([text |-> Null]),
      Obj(("0" :> Str(<<"z">>)) @@ ("-1" :> Str(<<"y">>))),
      Str(<<"s">>),
      Null }

RECURSIVE Wrap(_, _, _)
\* the smallest document that holds leaf at path, from step i on
Wrap(path, i, leaf) ==
    IF i > Len(path) THEN leaf
    ELSE LET inner == Wrap(path, i + 1, leaf)
             key == path[i]
         IN  IF key.t = "num" \/ IsDigitsOnly(key.v)
             THEN LET n == IF key.t = "num" THEN key.v ELSE ParseInt(key.v)
                  IN  Arr([j \in 1..(n + 1) |-> IF j = n + 1 THEN inner ELSE Null])
             ELSE Obj(PropertyName(key.v) :> inner)

ResponseTexts == { <<"h", "i">>, << >> }

\* what a response holds where the path expected to go on
Stubs == { Null, Str(<<"x">>), Num(5), Arr(<< >>), Obj(EmptyMap) }

\* provider responses: the text at the text path, something else at the text
\* path, and documents in which the path breaks off after j steps
Responses(sch) ==
    LET path == sch.text_path
    IN  { Wrap(path, 1, Str(t)) : t \in ResponseTexts }
        \cup { Wrap(path, 1, x) : x \in Stubs }
        \cup { Wrap(SubSeq(path, 1, j), 1, x) : j \in 0..(Len(path) - 1), x \in Stubs }

\* the readers leave the Context as it is, so what a call does depends on
\* its arguments alone: each call is taken from the state after construction
ResolvePath ==
    \E obj \in PathObjects, path \in Paths :
        LET r == resolvePath(obj, path)
        IN  /\ last.op = "new"
            /\ last' = Call("resolvePath", <<obj, path>>, r.err)
            /\ returned' = r.val
            /\ UNCHANGED <<built, ctx, request, doc, peer, chat, keys, asr, wire>>

ExtractTextResponse ==
    \E response \in Responses(schema) :
        LET r == extractTextResponse(schema, response)
        IN  /\ last.op = "new"
            /\ last' = Call("extractTextResponse", response, r.err)
            /\ returned' = r.val
            /\ UNCHANGED <<built, ctx, request, doc, peer, chat, keys, asr, wire>>

PathNext == ResolvePath \/ ExtractTextResponse

PathSpec == Init /\ [][PathNext]_vars

\* ------------------------------------------------- the constructor driven

\* the values a block of the schema document is given; Undef leaves it out
ProviderBlocks == { Undef, Obj([name |-> Str(<<"b">>)]) }

ApiBlocks ==
    { Undef, Obj(EmptyMap), Obj([endpoint |-> Str(<< >>)]),
      Obj([endpoint |-> Str(<<"u">>)]) }

TemplateBlocks == { Undef, SchemaBare.request_template }

MessageFormatBlocks ==
    { Undef, Obj(EmptyMap),
      Obj([structure |-> SchemaBare.structure]),
      Obj([content_types |-> Obj([text |-> SchemaBare.text])]),
      Obj([structure |-> SchemaBare.structure, content_types |-> Obj(EmptyMap)]),
      Obj([structure |-> SchemaBare.structure,
           content_types |-> Obj([text |-> SchemaBare.text])]) }

ResponseFormatBlocks ==
    { Undef, Obj(EmptyMap), Obj([success |-> Obj(EmptyMap)]),
      Obj([success |-> Obj([text_path |-> Arr(<< >>)])]),
      Obj([success |-> Obj([text_path |-> Arr(SchemaBare.text_path)])]) }

\* a document of the bare schema with the five blocks as given
SchemaDocument(provider, api, template, format, response) ==
    LET blocks == [provider |-> provider, api |-> api, request_template |-> template,
                   message_format |-> format, response_format |-> response]
    IN  Obj([k \in {kk \in DOMAIN blocks : blocks[kk] # Undef} |-> blocks[k]])

SchemaDocuments ==
    { SchemaDocument(p, a, t, f, r) :
        p \in ProviderBlocks, a \in ApiBlocks, t \in TemplateBlocks,
        f \in MessageFormatBlocks, r \in ResponseFormatBlocks }

\* no Context yet
NoContext ==
    /\ built = <<"Bare", "Plain">>
    /\ doc = EmptyMap
    /\ ctx = Undef
    /\ last = Call("none", Undef, "")
    /\ request = Undef
    /\ peer = Undef
    /\ returned = Undef
    /\ NoPage

\* new GeneralContext(document): initialize() validates the document before
\* anything is cached; when it throws, the caller has no Context
Construct ==
    \E document \in SchemaDocuments :
        LET r == validateSchema(document)
        IN  /\ last' = Call("new", document, r.err)
            /\ ctx' = IF r.err = "" THEN NewContext(schema) ELSE Undef
            /\ UNCHANGED <<built, request, doc, peer, returned, chat, keys, asr, wire>>

SchemaSpec == NoContext /\ [][Construct]_vars

\* --------------------------------------- the schema document edited in place

\* what the owner of the schema document writes into it after the Context was
\* constructed: another message structure (flat-string content, or content
\* blocks), another request template, another text block template
SchemaEdits ==
    { <<"structure", Obj([role |-> Str(<< >>), content |-> Str(TEXT_CONTENT)])>>,
      <<"structure", Obj([role |-> Str(<< >>), content |-> Arr(<< >>)])>>,
      <<"request_template", Obj([model |-> Str(<< >>), messages |-> Arr(<< >>),
                                 seed |-> Num(1)])>>,
      <<"text", Obj([kind |-> Str(<<"t">>), text |-> Str(<< >>)])>> }

\* schema.message_format.structure = ..., schema.request_template = ...: the
\* Context is not called
EditSchema ==
    \E edit \in SchemaEdits :
        /\ doc' = Put(doc, edit[1], edit[2])
        /\ last' = Call("editSchema", edit[1], "")
        /\ UNCHANGED <<built, ctx, request, peer, returned, chat, keys, asr, wire>>

\* addUserMessage(content)
AddUserMessage ==
    \E content \in Texts :
        Mutated("addMessage", <<user, content, << >>, << >>>>,
                addMessage(schema, config, ctx, user, content, << >>, << >>))

LiveNext == EditSchema \/ AddUserMessage \/ SetSystemMessage \/ BuildRequest

LiveSpec == Init /\ [][LiveNext]_vars

\* ----------------------------------------------------------- two Contexts

\* Two Contexts over one schema object and one configuration: ctx is the
\* first, peer.c the second.  importState copies the array of messages and
\* the entries of the parameters, not the message objects and the parameter
\* values, so after the second Context has taken the export of the first,
\* the first peer.messages messages of both are the same objects, and so are
\* the values of the parameters named in peer.parameters.

PairParameters == { <<"extra", Obj([a |-> Null])>> }

PairInit ==
    /\ built = <<"OpenAI", "Defaults">>
    /\ doc = EmptyMap
    /\ ctx = NewContext(schema)
    /\ peer = [c |-> NewContext(schema), messages |-> 0, parameters |-> {}]
    /\ last = Call("new", Undef, "")
    /\ request = Undef
    /\ returned = Undef
    /\ NoPage

\* the Context the call is made on, and the other one
Of(who) == IF who = 1 THEN ctx ELSE peer.c

Other(who) == IF who = 1 THEN peer.c ELSE ctx

\* c after removeNullsRecursive has walked, through the other Context's
\* request, the objects c shares with it
SharedStripped(c) ==
    [c EXCEPT
        !.messages = [i \in DOMAIN @ |->
                        IF i <= peer.messages THEN removeNullsRecursive(@[i]) ELSE @[i]],
        !.parameters = [k \in DOMAIN @ |->
                        IF k \in peer.parameters THEN removeNullsRecursive(@[k])
                        ELSE @[k]]]

\* the call op(arg) on Context who left it in r.val and the other Context in
\* other; the two then share the first m messages and the parameters ps
Called(who, op, arg, r, req, m, ps, other) ==
    /\ Fits(r.val)
    /\ ctx' = IF who = 1 THEN r.val ELSE other
    /\ peer' = [c |-> IF who = 1 THEN other ELSE r.val,
                messages |-> m, parameters |-> ps]
    /\ last' = Call(op, <<who, arg>>, r.err)
    /\ request' = req
    /\ UNCHANGED <<built, doc, returned, chat, keys, asr, wire>>

PairAddMessage ==
    \E who \in {1, 2}, content \in Texts :
        Called(who, "addMessage", <<user, content>>,
               addMessage(schema, config, Of(who), user, content, << >>, << >>),
               Undef, peer.messages, peer.parameters, Other(who))

PairSetParameter ==
    \E who \in {1, 2}, kv \in PairParameters :
        LET r == setParameter(schema, config, Of(who), kv[1], kv[2])
        IN  Called(who, "setParameter", kv, r, Undef, peer.messages,
                   IF r.err = "" THEN peer.parameters \ {kv[1]} ELSE peer.parameters,
                   Other(who))

PairSetModel ==
    \E who \in {1, 2}, model \in {ModelB} :
        Called(who, "setModel", model, setModel(schema, config, Of(who), model),
               Undef, peer.messages, peer.parameters, Other(who))

PairSetApiKey ==
    \E who \in {1, 2}, key \in {<<"a">>} :
        Called(who, "setApiKey", key, setApiKey(schema, config, Of(who), key),
               Undef, peer.messages, peer.parameters, Other(who))

PairBuildRequest ==
    \E who \in {1, 2} :
        LET r == buildRequest(schema, config, Of(who), FALSE)
        IN  Called(who, "buildRequest", FALSE, Left("", r.val), r.request,
                   peer.messages, peer.parameters, SharedStripped(Other(who)))

PairClearUserMessages ==
    \E who \in {1, 2} :
        Called(who, "clearUserMessages", Undef, Left("", clearUserMessages(Of(who))),
               Undef, 0, peer.parameters, Other(who))

PairClearParameters ==
    \E who \in {1, 2} :
        Called(who, "clearParameters", Undef, Left("", clearParameters(Of(who))),
               Undef, peer.messages, {}, Other(who))

PairReset ==
    \E who \in {1, 2} :
        Called(who, "reset", Undef, Left("", reset(schema, Of(who))),
               Undef, 0, {}, Other(who))

\* second.importState(first.exportState())
Transfer ==
    LET state == exportState(ctx)
    IN  Called(2, "importState", state, Left("", importState(schema, peer.c, state)),
               Undef, Len(ctx.messages), DOMAIN ctx.parameters, ctx)

PairNext ==
    \/ PairAddMessage
    \/ PairSetParameter
    \/ PairSetModel
    \/ PairSetApiKey
    \/ PairBuildRequest
    \/ PairClearUserMessages
    \/ PairClearParameters
    \/ PairReset
    \/ Transfer

PairSpec == PairInit /\ [][PairNext]_vars

\* ------------------------------------------------- a Context and its export

\* A Context and the object its exportState returned: peer.state is that
\* object, and peer.attached says that its messages field is still the array
\* the Context stores (exportState hands out this.messages itself; the
\* Context takes a new array in clearUserMessages and reset).

ExportParameters == { <<"extra", Obj([a |-> Null])>>, <<"max_tokens", Num(1)>> }

\* the exported object after the Context, left in c by a call, has pushed to
\* or replaced its array
ExportedAfter(c, attached) ==
    IF peer = Undef THEN Undef
    ELSE [state |-> IF attached
                    THEN [peer.state EXCEPT !.messages = Arr(c.messages)]
                    ELSE peer.state,
          attached |-> attached]

\* the call op(arg) left the Context in r.val; keeps says that the call
\* leaves this.messages the array it was
CalledExported(op, arg, r, keeps) ==
    /\ Fits(r.val)
    /\ ctx' = r.val
    /\ peer' = ExportedAfter(r.val, peer # Undef /\ peer.attached /\ keeps)
    /\ last' = Call(op, arg, r.err)
    /\ UNCHANGED <<built, doc, request, returned, chat, keys, asr, wire>>

\* const state = context.exportState()
ExportState ==
    /\ peer' = [state |-> exportState(ctx), attached |-> TRUE]
    /\ last' = Call("exportState", Undef, "")
    /\ UNCHANGED <<built, ctx, doc, request, returned, chat, keys, asr, wire>>

ExportAddMessage ==
    \E content \in Texts :
        CalledExported("addMessage", <<user, content>>,
                       addMessage(schema, config, ctx, user, content, << >>, << >>), TRUE)

ExportSetParameter ==
    \E kv \in ExportParameters :
        CalledExported("setParameter", kv,
                       setParameter(schema, config, ctx, kv[1], kv[2]), TRUE)

ExportSetModel ==
    \E model \in {ModelB} :
        CalledExported("setModel", model, setModel(schema, config, ctx, model), TRUE)

ExportSetSystemMessage ==
    \E text \in SystemTexts :
        CalledExported("setSystemMessage", text,
                       setSystemMessage(schema, config, ctx, text), TRUE)

ExportClearUserMessages ==
    CalledExported("clearUserMessages", Undef, Left("", clearUserMessages(ctx)), FALSE)

ExportClearSystemMessage ==
    CalledExported("clearSystemMessage", Undef, Left("", clearSystemMessage(ctx)), TRUE)

ExportClearParameters ==
    CalledExported("clearParameters", Undef, Left("", clearParameters(ctx)), TRUE)

ExportReset ==
    CalledExported("reset", Undef, Left("", reset(schema, ctx)), FALSE)

ExportNext ==
    \/ ExportState
    \/ ExportAddMessage
    \/ ExportSetParameter
    \/ ExportSetModel
    \/ ExportSetSystemMessage
    \/ ExportClearUserMessages
    \/ ExportClearSystemMessage
    \/ ExportClearParameters
    \/ ExportReset

ExportSpec == Init /\ [][ExportNext]_vars

\* -------------------------------------------------------------- the key store

\* PROVIDER_ENV_MAP, and the mapping of HyniChat.getEnvVar, which has the
\* same entries; an item of a storage is named by the variable (the code
\* puts hyni_ in front of it)
PROVIDER_ENV_MAP ==
    [openai |-> "OA_API_KEY", deepseek |-> "DS_API_KEY",
     claude |-> "CL_API_KEY", mistral |-> "MS_API_KEY"]

getEnvVar(provider) == PROVIDER_ENV_MAP[provider]

\* the storages of a page that stored nothing yet
NoKeys == [session |-> EmptyMap, local |-> EmptyMap, cache |-> EmptyMap]

\* storage.getItem(name) and API_KEY_CACHE.get(name): null (undefined, for
\* the cache) when there is no such item
getItem(storage, name) ==
    IF name \in DOMAIN storage THEN Str(storage[name]) ELSE Null

\* getApiKeyForProvider(provider): session storage, then local storage, then
\* the memory cache
getApiKeyForProvider(k, provider) ==
    IF provider \notin DOMAIN PROVIDER_ENV_MAP THEN << >>
    ELSE LET envVar == PROVIDER_ENV_MAP[provider]
             sessionKey == getItem(k.session, envVar)
             localKey == getItem(k.local, envVar)
             cachedKey == getItem(k.cache, envVar)
         IN  IF Truthy(sessionKey) THEN sessionKey.v
             ELSE IF Truthy(localKey) THEN localKey.v
             ELSE IF Truthy(cachedKey) THEN cachedKey.v
             ELSE << >>

\* setApiKeyForProvider(provider, apiKey, persistent)
setApiKeyForProvider(k, provider, apiKey, persistent) ==
    IF provider \notin DOMAIN PROVIDER_ENV_MAP THEN Left("Error", k)
    ELSE LET envVar == PROVIDER_ENV_MAP[provider]
         IN  Left("", [k EXCEPT
                 !.cache = Put(@, envVar, apiKey),
                 !.local = IF persistent THEN Put(@, envVar, apiKey) ELSE @,
                 !.session = IF persistent THEN @ ELSE Put(@, envVar, apiKey)])

\* removeApiKeyForProvider(provider)
removeApiKeyForProvider(k, provider) ==
    IF provider \notin DOMAIN PROVIDER_ENV_MAP THEN k
    ELSE LET envVar == PROVIDER_ENV_MAP[provider]
         IN  [k EXCEPT !.cache = Del(@, envVar), !.session = Del(@, envVar),
                       !.local = Del(@, envVar)]

\* -------------------------------------------------------------- the chat page

\* the providers of getConfiguredProviders and of the provider select
AllProviders == {"openai", "claude", "deepseek", "mistral"}

\* the schema document served as schemas/<provider>.json
SchemaOf(provider) == IF provider = "claude" THEN SchemaClaude ELSE SchemaOpenAI

\* new HyniChat() on the page as it is served: nothing selected, the chat
\* input and the send button disabled.  heap holds the Contexts constructed
\* so far, each with the provider whose schema it was constructed over; the
\* contexts map and currentContext refer to them by position (0 is null).
\* loads are the onProviderChange calls waiting for a schema, sends the
\* sends waiting for the network, broadcasting says that broadcastMessage
\* waits for its providers.
NewHyniChat ==
    [heap |-> << >>, contexts |-> EmptyMap, currentProvider |-> "",
     currentContext |-> 0, isProcessing |-> FALSE, broadcast |-> FALSE,
     disabled |-> [input |-> TRUE, send |-> TRUE], loads |-> {}, sends |-> {},
     broadcasting |-> FALSE]

ContextAt(h, id) == h.heap[id].c

SchemaAt(h, id) == SchemaOf(h.heap[id].provider)

\* value.trim()
Trim(s) ==
    LET inside == { i \in 1..Len(s) : s[i] \notin Whitespace }
    IN  IF inside = {} THEN << >>
        ELSE SubSeq(s, CHOOSE i \in inside : \A j \in inside : i <= j,
                       CHOOSE i \in inside : \A j \in inside : j <= i)

\* getConfiguredProviders()
getConfiguredProviders(k) ==
    { provider \in AllProviders : getApiKeyForProvider(k, provider) # << >> }

\* updateBroadcastUI(isBroadcast)
updateBroadcastUI(h, k, isBroadcast) ==
    IF isBroadcast
    THEN LET hasAnyKey == getConfiguredProviders(k) # {}
         IN  [h EXCEPT !.disabled = [input |-> ~hasAnyKey, send |-> ~hasAnyKey]]
    ELSE IF h.currentContext # 0
    THEN LET hasKey == hasApiKey(ContextAt(h, h.currentContext))
         IN  [h EXCEPT !.disabled = [input |-> ~hasKey, send |-> ~hasKey]]
    ELSE h

\* context.setApiKey(apiKey) on the Context at id; the callers pass a key
\* that is not empty
WithApiKey(h, id, apiKey) ==
    [h EXCEPT !.heap[id].c = setApiKey(SchemaAt(h, id), ConfigPlain, @, apiKey).val]

\* HyniChat.setApiKey(provider), value being what the key input holds
HyniChat_setApiKey(h, k, provider, value) ==
    LET apiKey == Trim(value)
        k1 == setApiKeyForProvider(k, provider, apiKey, TRUE).val
        h1 == IF h.currentProvider = provider /\ h.currentContext # 0
              THEN [WithApiKey(h, h.currentContext, apiKey)
                        EXCEPT !.disabled = [input |-> FALSE, send |-> FALSE]]
              ELSE h
    IN  IF apiKey = << >> THEN [chat |-> h, keys |-> k]
        ELSE [chat |-> IF h.broadcast THEN updateBroadcastUI(h1, k1, TRUE) ELSE h1,
              keys |-> k1]

\* HyniChat.removeApiKey(provider)
HyniChat_removeApiKey(h, k, provider) ==
    LET k1 == [k EXCEPT !.local = Del(@, getEnvVar(provider)),
                        !.session = Del(@, getEnvVar(provider))]
        h1 == IF h.currentProvider = provider
              THEN [h EXCEPT !.disabled = [input |-> TRUE, send |-> TRUE]]
              ELSE h
    IN  [chat |-> IF h.broadcast THEN updateBroadcastUI(h1, k1, TRUE) ELSE h1,
         keys |-> k1]

\* onProviderChange, from this.currentContext = context to its end
contextSelected(h, k, provider, id) ==
    LET apiKey == getApiKeyForProvider(k, provider)
        h1 == [h EXCEPT !.currentContext = id]
        h2 == IF apiKey # << >> THEN WithApiKey(h1, id, apiKey) ELSE h1
        hasKey == hasApiKey(ContextAt(h2, id))
    IN  [h2 EXCEPT !.disabled = [input |-> ~hasKey, send |-> ~hasKey]]

\* onProviderChange(provider), up to the first await or, when the Context is
\* in the map, to its end
onProviderChange(h, k, provider) ==
    IF provider = "" /\ ~h.broadcast
    THEN [h EXCEPT !.currentProvider = "", !.currentContext = 0,
                   !.disabled = [input |-> TRUE, send |-> TRUE]]
    ELSE IF h.broadcast THEN h
    ELSE LET h1 == [h EXCEPT !.currentProvider = provider]
         IN  IF provider \in DOMAIN h.contexts
             THEN contextSelected(h1, k, provider, h.contexts[provider])
             ELSE [h1 EXCEPT !.loads = @ \cup {provider}]

\* this.contexts.set(provider, new GeneralContext(schema))
contextCreated(h, provider) ==
    [h EXCEPT !.heap = Append(@, [provider |-> provider,
                                  c |-> NewContext(SchemaOf(provider))]),
              !.contexts = Put(@, provider, Len(h.heap) + 1)]

\* onProviderChange(provider) after the schema request has settled: a
\* response that is not ok is reported and nothing else is done
schemaLoaded(h, k, provider, ok) ==
    LET h1 == [h EXCEPT !.loads = @ \ {provider}]
    IN  IF ok
        THEN contextSelected(contextCreated(h1, provider), k, provider, Len(h.heap) + 1)
        ELSE h1

\* ------------------------------------------------ the key store and the page

\* the provider whose key is managed and selected, and a name that is not in
\* PROVIDER_ENV_MAP
KeyProviders == {"openai"}

UnknownProvider == "other"

KeyValues == { <<"a">>, <<"b">> }

\* what the key input holds when its Set button is pressed
KeyInputs == { << >>, <<" ", "b">> }

\* the page is open: no Context is driven apart from those of the page
PageOpen(h, k) ==
    /\ built = <<"OpenAI", "Plain">>
    /\ doc = EmptyMap
    /\ ctx = Undef
    /\ last = Call("open", Undef, "")
    /\ request = Undef
    /\ peer = Undef
    /\ returned = Undef
    /\ chat = h
    /\ keys = k
    /\ asr = Undef
    /\ wire = Undef

KeyInit == PageOpen(NewHyniChat, NoKeys)

\* a handler of the page ran: it left the page as h and the store as k
Handled(op, arg, err, h, k) ==
    /\ chat' = h
    /\ keys' = k
    /\ last' = Call(op, arg, err)
    /\ UNCHANGED <<built, ctx, request, doc, peer, returned, asr, wire>>

SetApiKeyForProvider ==
    \E provider \in KeyProviders \cup {UnknownProvider}, apiKey \in KeyValues,
       persistent \in BOOLEAN :
        LET r == setApiKeyForProvider(keys, provider, apiKey, persistent)
        IN  Handled("setApiKeyForProvider", <<provider, apiKey, persistent>>, r.err,
                    chat, r.val)

RemoveApiKeyForProvider ==
    \E provider \in KeyProviders :
        Handled("removeApiKeyForProvider", provider, "", chat,
                removeApiKeyForProvider(keys, provider))

GetApiKeyForProvider ==
    \E provider \in KeyProviders \cup {UnknownProvider} :
        /\ returned' = Str(getApiKeyForProvider(keys, provider))
        /\ last' = Call("getApiKeyForProvider", provider, "")
        /\ UNCHANGED <<built, ctx, request, doc, peer, chat, keys, asr, wire>>

\* the Set button of a provider's key input
ChatSetApiKey ==
    \E provider \in KeyProviders, value \in KeyInputs :
        LET r == HyniChat_setApiKey(chat, keys, provider, value)
        IN  Handled("setApiKey", <<provider, value>>, "", r.chat, r.keys)

\* the Remove button of a provider's key
ChatRemoveApiKey ==
    \E provider \in KeyProviders :
        LET r == HyniChat_removeApiKey(chat, keys, provider)
        IN  Handled("removeApiKey", provider, "", r.chat, r.keys)

\* the provider select changes; a provider whose schema is being loaded is
\* not selected again
OnProviderChange ==
    \E provider \in KeyProviders \cup {""} :
        /\ provider \notin chat.loads
        /\ Handled("onProviderChange", provider, "",
                   onProviderChange(chat, keys, provider), keys)

\* the request for a schema document settles
SchemaLoaded ==
    \E provider \in chat.loads, ok \in BOOLEAN :
        Handled("schemaLoaded", <<provider, ok>>, "",
                schemaLoaded(chat, keys, provider, ok), keys)

\* the broadcast checkbox changes
BroadcastChange ==
    LET checked == ~chat.broadcast
    IN  Handled("broadcastChange", checked, "",
                updateBroadcastUI([chat EXCEPT !.broadcast = checked], keys, checked),
                keys)

KeyNext ==
    \/ SetApiKeyForProvider
    \/ RemoveApiKeyForProvider
    \/ GetApiKeyForProvider
    \/ ChatSetApiKey
    \/ ChatRemoveApiKey
    \/ OnProviderChange
    \/ SchemaLoaded
    \/ BroadcastChange

KeySpec == KeyInit /\ [][KeyNext]_vars

\* ------------------------------------------------------------- the recorder

\* the microphone streams getUserMedia grants in one behaviour
MaxStreams == 2

\* the MediaRecorders constructed in one behaviour
MaxRecorders == 3

\* new WStreamASRModule().  streams[i] says whether the tracks of the i-th
\* granted stream are live; recorders are the MediaRecorders constructed,
\* each on a stream and recording or inactive; currentStream and
\* mediaRecorder refer to them by position (0 is null).  requests counts the
\* getUserMedia calls not yet settled, intervals the pending timers of
\* kIntervalAudio_ms, stops the recorders whose stop event is to be
\* delivered, restarts the pending timers of 10 ms.
NewASR ==
    [isInitialized |-> FALSE, isRecording |-> FALSE, currentStream |-> 0,
     mediaRecorder |-> 0, streams |-> << >>, recorders |-> << >>,
     requests |-> 0, intervals |-> 0, stops |-> {}, restarts |-> 0]

\* this.mediaRecorder.stop() on the recorder at r: it becomes inactive and
\* its stop event is queued
recorderStopped(a, r) ==
    [a EXCEPT !.recorders[r].state = "inactive", !.stops = @ \cup {r}]

\* startRecording(), up to the await
startRecording(a) ==
    IF ~a.isInitialized \/ a.isRecording THEN a
    ELSE [a EXCEPT !.isRecording = TRUE, !.requests = @ + 1]

\* stopRecording()
stopRecording(a) ==
    LET a1 == [a EXCEPT !.isRecording = FALSE]
        a2 == IF a1.mediaRecorder # 0
                 /\ a1.recorders[a1.mediaRecorder].state # "inactive"
              THEN recorderStopped(a1, a1.mediaRecorder)
              ELSE a1
    IN  IF a2.currentStream # 0
        THEN [a2 EXCEPT !.streams[a2.currentStream] = FALSE, !.currentStream = 0]
        ELSE a2

\* setupMediaRecorder(stream): new MediaRecorder(stream) throws on null and
\* nothing is assigned; otherwise the recorder is started and the interval
\* timer set
setupMediaRecorder(a, stream) ==
    IF stream = 0 THEN Left("TypeError", a)
    ELSE Left("", [a EXCEPT
             !.recorders = Append(@, [stream |-> stream, state |-> "recording"]),
             !.mediaRecorder = Len(a.recorders) + 1,
             !.intervals = @ + 1])

\* startRecording() after getUserMedia resolved with a new stream
microphoneGranted(a) ==
    LET stream == Len(a.streams) + 1
    IN  setupMediaRecorder(
            [a EXCEPT !.requests = @ - 1, !.streams = Append(@, TRUE),
                      !.currentStream = stream], stream).val

\* startRecording() after getUserMedia rejected
microphoneDenied(a) == [a EXCEPT !.requests = @ - 1, !.isRecording = FALSE]

\* the timer of kIntervalAudio_ms
intervalElapsed(a) ==
    LET a1 == [a EXCEPT !.intervals = @ - 1]
    IN  IF a1.mediaRecorder # 0 /\ a1.recorders[a1.mediaRecorder].state = "recording"
        THEN recorderStopped(a1, a1.mediaRecorder)
        ELSE a1

\* mediaRecorder.onstop of the recorder at r, from the test of isRecording
onstop(a, r) ==
    LET a1 == [a EXCEPT !.stops = @ \ {r}]
    IN  IF a1.isRecording THEN [a1 EXCEPT !.restarts = @ + 1] ELSE a1

\* the timer of 10 ms set by onstop
restartElapsed(a) ==
    LET a1 == [a EXCEPT !.restarts = @ - 1]
    IN  IF a1.isRecording THEN setupMediaRecorder(a1, a1.currentStream)
        ELSE Left("", a1)

AsrInit ==
    /\ built = <<"OpenAI", "Plain">>
    /\ doc = EmptyMap
    /\ ctx = Undef
    /\ last = Call("open", Undef, "")
    /\ request = Undef
    /\ peer = Undef
    /\ returned = Undef
    /\ chat = Undef
    /\ keys = Undef
    /\ asr = NewASR
    /\ wire = Undef

\* something happened to the module and left it as a
Recorded(op, err, a) ==
    /\ asr' = a
    /\ last' = Call(op, Undef, err)
    /\ UNCHANGED <<built, ctx, request, doc, peer, returned, chat, keys, wire>>

\* initialize() ran to its end
Initialize ==
    \E ok \in BOOLEAN :
        /\ ~asr.isInitialized
        /\ Recorded("initialize", "", [asr EXCEPT !.isInitialized = ok])

StartRecording ==
    /\ Len(asr.streams) + asr.requests < MaxStreams
    /\ Recorded("startRecording", "", startRecording(asr))

StopRecording == Recorded("stopRecording", "", stopRecording(asr))

MicrophoneGranted ==
    /\ asr.requests > 0
    /\ Len(asr.recorders) < MaxRecorders
    /\ Recorded("microphoneGranted", "", microphoneGranted(asr))

MicrophoneDenied ==
    /\ asr.requests > 0
    /\ Recorded("microphoneDenied", "", microphoneDenied(asr))

IntervalElapsed ==
    /\ asr.intervals > 0
    /\ Recorded("intervalElapsed", "", intervalElapsed(asr))

Onstop ==
    \E r \in asr.stops : Recorded("onstop", "", onstop(asr, r))

RestartElapsed ==
    /\ asr.restarts > 0
    /\ Len(asr.recorders) < MaxRecorders
    /\ LET r == restartElapsed(asr)
       IN  Recorded("restartElapsed", r.err, r.val)

AsrNext ==
    \/ Initialize
    \/ StartRecording
    \/ StopRecording
    \/ MicrophoneGranted
    \/ MicrophoneDenied
    \/ IntervalElapsed
    \/ Onstop
    \/ RestartElapsed

AsrSpec == AsrInit /\ [][AsrNext]_vars

\* ------------------------------------------------------ the streamed response

\* the line feed
LF == "\n"

\* the field name of a server-sent data line
DataPrefix6 == <<"d", "a", "t", "a", ":", " ">>

\* the sentinel that ends a stream
DONE == <<"[", "D", "O", "N", "E", "]">>

\* The JSON text of a stream event is written with one pair of brackets:
\* {w} stands for {"choices":[{"delta":{"content":"w"}}]}, (w) for
\* {"delta":{"text":"w"}} and <> for {"choices":[{"delta":{"role":"asst"}}]}.
Brackets == {"{", "}", "(", ")", "<", ">"}

\* JSON.parse(text): the document, or a SyntaxError for a text that is not
\* one whole document
JSON_parse(text) ==
    LET n == Len(text)
        w == SubSeq(text, 2, n - 1)
        plain == \A i \in 2..(n - 1) : text[i] \notin Brackets
    IN  IF n >= 2 /\ text[1] = "{" /\ text[n] = "}" /\ plain
        THEN Returns(Obj([choices |-> Arr(<<Obj([delta |-> Obj([content |-> Str(w)])])>>)]))
        ELSE IF n >= 2 /\ text[1] = "(" /\ text[n] = ")" /\ plain
        THEN Returns(Obj([delta |-> Obj([text |-> Str(w)])]))
        ELSE IF text = <<"<", ">">>
        THEN Returns(Obj([choices |-> Arr(<<Obj([delta |-> Obj([role |-> Str(assistant)])])>>)]))
        ELSE Throws("SyntaxError")

\* x?.[k] and x?.k: undefined when x is null or undefined or has no such
\* property
Chain(x, k) ==
    IF x.t = "obj" THEN (IF k \in DOMAIN x.v THEN x.v[k] ELSE Undef)
    ELSE IF x.t = "arr" /\ k \in Nat THEN (IF k < Len(x.v) THEN x.v[k + 1] ELSE Undef)
    ELSE Undef

\* extractStreamingContent(json)
extractStreamingContent(json) ==
    LET content == Chain(Chain(Chain(Chain(json, "choices"), 0), "delta"), "content")
        deltaText == Chain(Chain(json, "delta"), "text")
    IN  IF Truthy(content) THEN content
        ELSE IF Truthy(deltaText) THEN deltaText
        ELSE IF content # Undef THEN content
        ELSE Str(<< >>)

\* chunk.split('\n')
RECURSIVE Split(_)
Split(s) ==
    IF \A i \in 1..Len(s) : s[i] # LF THEN <<s>>
    ELSE LET at == CHOOSE i \in 1..Len(s) : s[i] = LF /\ \A j \in 1..(i - 1) : s[j] # LF
         IN  <<SubSeq(s, 1, at - 1)>> \o Split(SubSeq(s, at + 1, Len(s)))

\* line.startsWith('data: ')
startsWithData(line) == Len(line) >= 6 /\ SubSeq(line, 1, 6) = DataPrefix6

\* the body of the loop over the lines of a chunk: fullText after the line
lineRead(fullText, line) ==
    IF ~startsWithData(line) THEN fullText
    ELSE LET data == Trim(SubSeq(line, 7, Len(line)))
             json == JSON_parse(data)
         IN  IF data = DONE \/ json.err # "" THEN fullText
             ELSE LET content == extractStreamingContent(json.val)
                  IN  IF Truthy(content) THEN fullText \o content.v ELSE fullText

\* the lines of one chunk, from the i-th on
RECURSIVE linesRead(_, _, _)
linesRead(fullText, lines, i) ==
    IF i > Len(lines) THEN fullText
    ELSE linesRead(lineRead(fullText, lines[i]), lines, i + 1)

\* one turn of the read loop on the decoded chunk: fullText after the chunk;
\* nothing of a chunk is kept for the next one
chunkRead(fullText, chunk) == linesRead(fullText, Split(chunk), 1)

\* ------------------------------------------------- a streamed response read

\* the most data events of a stream, the [DONE] event not counted
MaxEvents == 2

\* the most places at which the transport cuts the body into chunks
MaxCuts == 2

\* the JSON texts of the data events a provider sends: deltas of the two
\* formats, a delta with empty content, an event without content
EventTexts == { <<"{", "h", "}">>, <<"{", "i", "}">>, <<"(", "j", ")">>,
                <<"{", "}">>, <<"<", ">">> }

\* data: <text>, ended by an empty line
Event(text) == DataPrefix6 \o text \o <<LF, LF>>

RECURSIVE Body(_)
Body(events) ==
    IF events = << >> THEN Event(DONE)
    ELSE Event(Head(events)) \o Body(Tail(events))

EventSequences == UNION { [1..n -> EventTexts] : n \in 1..MaxEvents }

\* the chunks of body cut after the positions in cuts
RECURSIVE Chunks(_, _)
Chunks(body, cuts) ==
    IF cuts = {} THEN <<body>>
    ELSE LET at == CHOOSE i \in cuts : \A j \in cuts : i <= j
         IN  <<SubSeq(body, 1, at)>>
             \o Chunks(SubSeq(body, at + 1, Len(body)), { j - at : j \in cuts \ {at} })

\* the sets of at most k places inside body
RECURSIVE CuttingsUpTo(_, _)
CuttingsUpTo(body, k) ==
    IF k = 0 THEN { {} }
    ELSE LET fewer == CuttingsUpTo(body, k - 1)
         IN  fewer \cup { cuts \cup {i} : cuts \in fewer, i \in 1..(Len(body) - 1) }

Cuttings(body) == CuttingsUpTo(body, MaxCuts)

\* a send on an OpenAI Context whose streaming request was answered with
\* status 200: the events the provider sent, the chunks still to be read,
\* the reader's variables
StreamInit ==
    /\ built = <<"OpenAI", "Plain">>
    /\ doc = EmptyMap
    /\ ctx = addMessage(schema, config, NewContext(schema), user, <<"h">>, << >>, << >>).val
    /\ last = Call("fetch", Undef, "")
    /\ request = Undef
    /\ peer = Undef
    /\ returned = Undef
    /\ chat = Undef
    /\ keys = Undef
    /\ asr = Undef
    /\ \E events \in EventSequences :
         \E cuts \in Cuttings(Body(events)) :
            wire = [events |-> events, chunks |-> Chunks(Body(events), cuts),
                    fullText |-> << >>, done |-> FALSE]

\* reader.read() resolved with a chunk
ReadChunk ==
    /\ ~wire.done
    /\ wire.chunks # << >>
    /\ wire' = [wire EXCEPT !.chunks = Tail(@),
                            !.fullText = chunkRead(@, Head(wire.chunks))]
    /\ last' = Call("read", Head(wire.chunks), "")
    /\ UNCHANGED <<built, ctx, request, doc, peer, returned, chat, keys, asr>>

\* reader.read() resolved with done: the loop ends and the text is stored
\* with addAssistantMessage
ReadDone ==
    /\ ~wire.done
    /\ wire.chunks = << >>
    /\ wire' = [wire EXCEPT !.done = TRUE]
    /\ ctx' = addMessage(schema, config, ctx, assistant, wire.fullText,
                         << >>, << >>).val
    /\ last' = Call("done", Undef, "")
    /\ UNCHANGED <<built, request, doc, peer, returned, chat, keys, asr>>

StreamNext == ReadChunk \/ ReadDone

StreamSpec == StreamInit /\ [][StreamNext]_vars

\* ---------------------------------------------------------------- the sends

\* the order in which broadcastMessage goes through the providers
ProviderOrder == <<"openai", "claude", "deepseek", "mistral">>

\* a send waiting for the network.  kind is single (sendSingleMessage) or
\* provider (sendToProvider); stage is schema (the provider's schema was
\* requested) or response (the chat request was sent); context is the
\* Context the request was built from (sendToProvider keeps it in a local
\* variable, sendSingleMessage does not keep it), provider the provider the
\* request went to
Send(kind, stage, provider, context, streaming, message) ==
    [kind |-> kind, stage |-> stage, provider |-> provider, context |-> context,
     streaming |-> streaming, message |-> message]

\* what the network does to a request: the request fails, the status is not
\* ok, or the status is ok and data is the body (the document for a normal
\* request, the text read from the events for a streaming one)
Settled(status, data) == [status |-> status, data |-> data]

\* the Context at id after op left it in r.val
ContextLeft(h, id, r) == Left(r.err, [h EXCEPT !.heap[id].c = r.val])

\* setSystemMessage if one is given and supported, then addUserMessage, on
\* the Context at id
userMessageAdded(h, id, systemMessage, message) ==
    LET sch == SchemaAt(h, id)
        r1 == IF systemMessage # << >> /\ supportsSystemMessages(sch)
              THEN ContextLeft(h, id, setSystemMessage(sch, ConfigPlain,
                                                       ContextAt(h, id), systemMessage))
              ELSE Left("", h)
    IN  IF r1.err # "" THEN r1
        ELSE ContextLeft(r1.val, id,
                 addMessage(sch, ConfigPlain, ContextAt(r1.val, id), user, message,
                            << >>, << >>))

\* streaming-check is checked and the Context supports streaming
useStreaming(h, id, checked) == checked /\ SchemaAt(h, id).streaming

\* context.buildRequest(streaming) on the Context at id
requestBuilt(h, id, streaming) ==
    [h EXCEPT !.heap[id].c = buildRequest(SchemaAt(h, id), ConfigPlain, @, streaming).val]

\* the text of the reply and its storing with addAssistantMessage on the
\* Context at id: extractTextResponse for a normal request, the accumulated
\* text for a streaming one
replyStored(h, id, streaming, data) ==
    LET sch == SchemaAt(h, id)
        text == IF streaming THEN Returns(data) ELSE extractTextResponse(sch, data)
    IN  IF text.err # "" THEN Left(text.err, h)
        ELSE ContextLeft(h, id,
                 addMessage(sch, ConfigPlain, ContextAt(h, id), assistant, text.val.v,
                            << >>, << >>))

\* the finally block of sendSingleMessage
sendFinished(h) == [h EXCEPT !.isProcessing = FALSE, !.disabled.send = FALSE]

\* a sendSingleMessage that does not look at isProcessing
sendSingleMessageUnguarded(h, value, systemMessage, checked) ==
    LET message == Trim(value)
        id == h.currentContext
        h1 == [h EXCEPT !.isProcessing = TRUE, !.disabled.send = TRUE]
        added == userMessageAdded(h1, id, systemMessage, message)
        streaming == useStreaming(h, id, checked)
    IN  IF h.currentContext = 0 \/ message = << >> THEN h
        ELSE IF added.err # "" THEN sendFinished(added.val)
        ELSE [requestBuilt(added.val, id, streaming) EXCEPT
                 !.sends = @ \cup {Send("single", "response", h.currentProvider, id,
                                        streaming, message)}]

\* sendSingleMessage(), up to the await of fetch; value is what the chat
\* input holds
sendSingleMessage(h, value, systemMessage, checked) ==
    LET message == Trim(value)
        id == h.currentContext
        h1 == [h EXCEPT !.isProcessing = TRUE, !.disabled.send = TRUE]
        added == userMessageAdded(h1, id, systemMessage, message)
        streaming == useStreaming(h, id, checked)
    IN  IF h.isProcessing \/ h.currentContext = 0 \/ message = << >> THEN h
        ELSE IF added.err # "" THEN sendFinished(added.val)
        ELSE [requestBuilt(added.val, id, streaming) EXCEPT
                 !.sends = @ \cup {Send("single", "response", h.currentProvider, id,
                                        streaming, message)}]

\* sendNormalMessage() / sendStreamingMessage() after the request of the
\* send t has settled, and the rest of sendSingleMessage: the reply is read
\* with and stored in this.currentContext as it is now
singleSettled(h, t, settled) ==
    LET h1 == [h EXCEPT !.sends = @ \ {t}]
    IN  IF settled.status # "ok" THEN Left("Error", sendFinished(h1))
        ELSE IF h1.currentContext = 0 THEN Left("TypeError", sendFinished(h1))
        ELSE LET r == replyStored(h1, h1.currentContext, t.streaming, settled.data)
             IN  Left(r.err, sendFinished(r.val))

\* sendToProvider from the reading of the key to the await of fetch, on the
\* Context at id; an error ends the send
providerRequested(h, k, provider, id, message, systemMessage, checked) ==
    LET apiKey == getApiKeyForProvider(k, provider)
        sch == SchemaAt(h, id)
        h1 == WithApiKey(h, id, apiKey)
        modelSet == IF Len(sch.models.default) > 0
                    THEN ContextLeft(h1, id, setModel(sch, ConfigPlain, ContextAt(h1, id),
                                                      sch.models.default))
                    ELSE Left("", h1)
        added == userMessageAdded(modelSet.val, id, systemMessage, message)
        streaming == useStreaming(h, id, checked)
    IN  IF apiKey = << >> THEN h
        ELSE IF modelSet.err # "" THEN modelSet.val
        ELSE IF added.err # "" THEN added.val
        ELSE [requestBuilt(added.val, id, streaming) EXCEPT
                 !.sends = @ \cup {Send("provider", "response", provider, id,
                                        streaming, message)}]

\* sendToProvider(provider, message), up to its first await
sendToProvider(h, k, provider, message, systemMessage, checked) ==
    IF provider \in DOMAIN h.contexts
    THEN providerRequested(h, k, provider, h.contexts[provider], message,
                           systemMessage, checked)
    ELSE [h EXCEPT !.sends = @ \cup {Send("provider", "schema", provider, 0, FALSE,
                                          message)}]

\* sendToProvider after the schema request of the send t has settled
providerLoaded(h, k, t, ok, systemMessage, checked) ==
    LET h1 == [h EXCEPT !.sends = @ \ {t}]
    IN  IF ~ok THEN h1
        ELSE providerRequested(contextCreated(h1, t.provider), k, t.provider,
                               Len(h.heap) + 1, t.message, systemMessage, checked)

\* sendProviderNormalMessage / sendProviderStreamingMessage after the request
\* of the send t has settled
providerSettled(h, t, settled) ==
    LET h1 == [h EXCEPT !.sends = @ \ {t}]
    IN  IF settled.status # "ok" THEN Left("Error", h1)
        ELSE replyStored(h1, t.context, t.streaming, settled.data)

\* configuredProviders.map(provider => this.sendToProvider(provider, message))
RECURSIVE sentToAll(_, _, _, _, _, _, _)
sentToAll(h, k, providers, i, message, systemMessage, checked) ==
    IF i > Len(ProviderOrder) THEN h
    ELSE sentToAll(IF ProviderOrder[i] \in providers
                   THEN sendToProvider(h, k, ProviderOrder[i], message, systemMessage,
                                       checked)
                   ELSE h,
                   k, providers, i + 1, message, systemMessage, checked)

\* broadcastMessage(), up to the await of Promise.allSettled
broadcastMessage(h, k, value, systemMessage, checked) ==
    LET message == Trim(value)
        configuredProviders == getConfiguredProviders(k)
        h1 == [h EXCEPT !.isProcessing = TRUE, !.disabled.send = TRUE,
                        !.broadcasting = TRUE]
    IN  IF h.isProcessing \/ message = << >> \/ configuredProviders = {} THEN h
        ELSE sentToAll(h1, k, configuredProviders, 1, message, systemMessage, checked)

\* broadcastMessage() after all its sends have settled
broadcastSettled(h) ==
    [h EXCEPT !.isProcessing = FALSE, !.disabled.send = FALSE, !.broadcasting = FALSE]

\* sendMessage()
sendMessage(h, k, value, systemMessage, checked) ==
    IF h.broadcast THEN broadcastMessage(h, k, value, systemMessage, checked)
    ELSE sendSingleMessage(h, value, systemMessage, checked)

\* ------------------------------------------------------ the chat page driven

\* the most messages the Contexts of the page hold, counted together, when a
\* send is started
MaxMessages == 2

\* the providers selected and holding a key
ChatProviders == {"openai", "claude"}

\* what the chat input holds when a send is asked for
ChatInputs == { <<" ">>, <<"h">> }

\* what the system message input holds
SystemInputs == { << >> }

ReplyText == <<"h", "i">>

\* the bodies a provider answers a chat request with: a document with the
\* text at the text path of the provider's schema, a document without it; for
\* a streaming request the text of its events
Bodies(t) ==
    IF t.streaming THEN { Str(ReplyText) }
    ELSE { Wrap(SchemaOf(t.provider).text_path, 1, Str(ReplyText)), Obj(EmptyMap) }

Settlements(t) ==
    { Settled("failed", Undef), Settled("status", Undef) }
        \cup { Settled("ok", data) : data \in Bodies(t) }

\* the page of a user who stored the keys of two providers on an earlier visit
StoredKeys ==
    setApiKeyForProvider(
        setApiKeyForProvider(NoKeys, "openai", <<"a">>, TRUE).val,
        "claude", <<"b">>, TRUE).val

ChatInit == PageOpen(NewHyniChat, [StoredKeys EXCEPT !.cache = EmptyMap])

\* the messages of the first n Contexts, counted
RECURSIVE MessagesHeld(_, _)
MessagesHeld(h, n) ==
    IF n = 0 THEN 0 ELSE Len(ContextAt(h, n).messages) + MessagesHeld(h, n - 1)

\* the Contexts are not too long for another send
SendsFit == MessagesHeld(chat, Len(chat.heap)) < MaxMessages

ProviderChange ==
    \E provider \in ChatProviders \cup {""} :
        /\ provider \notin chat.loads
        /\ Handled("onProviderChange", provider, "",
                   onProviderChange(chat, keys, provider), keys)

\* the send button is clicked or Ctrl+Enter is pressed in the chat input,
\* whichever of the two controls is enabled
SendMessage ==
    \E value \in ChatInputs, systemMessage \in SystemInputs, checked \in BOOLEAN :
        /\ ~chat.disabled.send \/ ~chat.disabled.input
        /\ SendsFit
        /\ Handled("sendMessage", Undef, "",
                   sendMessage(chat, keys, value, systemMessage, checked), keys)

SingleSettled ==
    \E t \in chat.sends :
        /\ t.kind = "single"
        /\ \E settled \in Settlements(t) :
              LET r == singleSettled(chat, t, settled)
              IN  Handled("singleSettled", Undef, r.err, r.val, keys)

ProviderLoaded ==
    \E t \in chat.sends, ok \in BOOLEAN, systemMessage \in SystemInputs,
       checked \in BOOLEAN :
        /\ t.kind = "provider" /\ t.stage = "schema"
        /\ Handled("providerLoaded", Undef, "",
                   providerLoaded(chat, keys, t, ok, systemMessage, checked), keys)

ProviderSettled ==
    \E t \in chat.sends :
        /\ t.kind = "provider" /\ t.stage = "response"
        /\ \E settled \in Settlements(t) :
              LET r == providerSettled(chat, t, settled)
              IN  Handled("providerSettled", Undef, r.err, r.val, keys)

BroadcastSettled ==
    /\ chat.broadcasting
    /\ chat.sends = {}
    /\ Handled("broadcastSettled", Undef, "", broadcastSettled(chat), keys)

ChatNext ==
    \/ ProviderChange
    \/ SchemaLoaded
    \/ BroadcastChange
    \/ SendMessage
    \/ SingleSettled
    \/ ProviderLoaded
    \/ ProviderSettled
    \/ BroadcastSettled

ChatSpec == ChatInit /\ [][ChatNext]_vars

\* ------------------------------------------------------------------- claims

\* the last call was buildRequest and request is what it returned
Built == last.op = "buildRequest"

\* C1: buildRequest is a pure read: a call leaves the Context's model, system
\* message, messages (their fields included), parameters (their nested fields
\* included), API key and headers exactly as they were.
C1_BuildRequestIsPureRead ==
    [][last'.op = "buildRequest" => ctx' = ctx]_vars

\* C2: with validation enabled, every entry of the parameter map satisfies
\* the validator for its key, in every reachable state.
C2_ParametersValid ==
    config.enableValidation =>
        \A k \in DOMAIN ctx.parameters : validateParameter(schema, k, ctx.parameters[k])

RECURSIVE SubstituteFrom(_, _, _, _)
\* s from position i on, with every occurrence of p replaced by the text key
SubstituteFrom(s, i, p, key) ==
    IF i > Len(s) THEN << >>
    ELSE IF MatchesAt(s, i, p)
    THEN key \o SubstituteFrom(s, i + Len(p), p, key)
    ELSE <<s[i]>> \o SubstituteFrom(s, i + 1, p, key)

\* the header map the schema and the key determine: every required template
\* with the placeholder replaced by the key, plus the non-empty optional headers
ExpectedHeaders(sch, key) ==
    LET req == sch.headers_required
        opt == sch.headers_optional
        set == {h \in DOMAIN opt : Len(opt[h]) > 0}
    IN  [h \in (DOMAIN req) \cup set |->
            IF h \in DOMAIN req
            THEN SubstituteFrom(req[h], 1, sch.key_placeholder, key)
            ELSE opt[h]]

\* C3: in every reachable state the header map is the one the schema and the
\* current API key determine: each required header template with every
\* occurrence of the key placeholder replaced by the current key, plus the
\* non-empty optional headers.
C3_HeadersFromSchemaAndKey == ctx.headers = ExpectedHeaders(schema, ctx.apiKey)

\* the stream flag buildRequest settles for when no stream parameter is stored
StreamByArgument == Bool(last.arg /\ schema.streaming)

\* C4, as claimed: a stored stream parameter is the request's stream whatever
\* the streaming argument is; with none stored, the request's stream is true
\* exactly when the argument is true and the schema declares streaming.
C4_StreamResolutionAsClaimed ==
    Built =>
        IF "stream" \in DOMAIN ctx.parameters
        THEN /\ "stream" \in DOMAIN request.v
             /\ request.v["stream"] = ctx.parameters["stream"]
        ELSE /\ "stream" \in DOMAIN request.v
             /\ request.v["stream"] = StreamByArgument

\* C4, amended: a stored stream parameter that is not null is the request's
\* stream whatever the streaming argument is; a stored null leaves the request
\* without a stream field; with none stored, the request's stream is true
\* exactly when the argument is true and the schema declares streaming.
C4_StreamResolution ==
    Built =>
        IF "stream" \in DOMAIN ctx.parameters
        THEN IF ctx.parameters["stream"].t = "null"
             THEN "stream" \notin DOMAIN request.v
             ELSE /\ "stream" \in DOMAIN request.v
                  /\ request.v["stream"] = ctx.parameters["stream"]
        ELSE /\ "stream" \in DOMAIN request.v
             /\ request.v["stream"] = StreamByArgument

\* a request built with streaming asked for on a streaming schema, while
\* stream = false is stored
C4_Witness ==
    /\ Built /\ last.arg /\ schema.streaming
    /\ "stream" \in DOMAIN ctx.parameters
    /\ ctx.parameters["stream"] = Bool(FALSE)
    /\ request.v["stream"] = Bool(FALSE)

RECURSIVE SameArrayLengths(_, _)
\* y is x with fields removed from its objects: no array of x lost or gained
\* an element
SameArrayLengths(x, y) ==
    CASE x.t = "arr" ->
            /\ y.t = "arr" /\ Len(y.v) = Len(x.v)
            /\ \A i \in DOMAIN x.v : SameArrayLengths(x.v[i], y.v[i])
      [] x.t = "obj" ->
            /\ y.t = "obj"
            /\ \A k \in DOMAIN y.v : k \in DOMAIN x.v /\ SameArrayLengths(x.v[k], y.v[k])
      [] OTHER -> y = x

\* C5: the object buildRequest returns has no object field whose value is
\* null, at any depth (top level, nested objects, objects inside arrays, the
\* messages, the applied parameters); its arrays keep their length.
C5_NoNullFields ==
    Built =>
        /\ ~HasNullField(request)
        /\ SameArrayLengths(AssembleRequest(schema, config, ctx, last.arg), request)

\* a request whose template has null placeholders at the top level, in a
\* nested object and as an array element, and whose message carries a null
\* field of the message structure
C5_Witness ==
    /\ Built
    /\ HasNullField(schema.request_template)
    /\ HasNullField(schema.structure)
    /\ Len(ctx.messages) > 0
    /\ "stop" \in DOMAIN request.v /\ request.v["stop"] = Arr(<<Null>>)
    /\ "response_format" \in DOMAIN request.v

\* the constraint record of key declares a numeric range
HasRange(sch, key) ==
    /\ key \in DOMAIN sch.parameters
    /\ sch.parameters[key].min.t = "num"
    /\ sch.parameters[key].max.t = "num"

\* min <= v <= max
InRange(v, min, max) ==
    v.t = "num" /\ Twice(min) <= Twice(v) /\ Twice(v) <= Twice(max)

\* C6: for a parameter whose constraint record declares a numeric range
\* [min, max], setParameter(key, v) with a numeric v succeeds and stores v if
\* and only if min <= v <= max, and raises ValidationException otherwise.
C6_RangeIffAccepted ==
    (/\ last.op = "setParameter" /\ config.enableValidation
     /\ HasRange(schema, last.arg[1]) /\ IsNumber(last.arg[2]))
    => LET def == schema.parameters[last.arg[1]]
       IN  IF InRange(last.arg[2], def.min, def.max)
           THEN /\ last.err = ""
                /\ last.arg[1] \in DOMAIN ctx.parameters
                /\ ctx.parameters[last.arg[1]] = last.arg[2]
           ELSE last.err = "ValidationException"

\* C7: a mutator that raises ValidationException leaves the whole Context
\* state (model, system message, messages, parameters, API key, headers) as
\* it was before the call.
C7_FailedMutatorChangesNothing ==
    [][last'.err = "ValidationException" => ctx' = ctx]_vars

\* the call addMessage(role, content, mediaType, mediaData) attached media
WithMedia(arg) == Len(arg[3]) > 0 /\ Len(arg[4]) > 0

\* addMessage(arg) went from c to d by appending one message of role arg[1]
AppendedOne(c, d, arg) ==
    LET n == Len(c.messages)
    IN  /\ Len(d.messages) = n + 1
        /\ SubSeq(d.messages, 1, n) = c.messages
        /\ d.messages[n + 1].v["role"] = Str(arg[1])

FallbackDefaults ==
    { <<"max_tokens", config.defaultMaxTokens>>,
      <<"temperature", config.defaultTemperature>> }

\* C10: a configured default appears in the request if and only if the
\* caller never set that parameter and the configuration supplies the
\* default; a parameter the caller set is in the request with the caller's
\* value; for any request template.
C10_FallbackDefaults ==
    Built =>
        \A kd \in FallbackDefaults :
            IF kd[1] \in DOMAIN ctx.parameters
            THEN /\ kd[1] \in DOMAIN request.v
                 /\ request.v[kd[1]] = ctx.parameters[kd[1]]
            ELSE (kd[2].t # "undef") <=>
                    (kd[1] \in DOMAIN request.v /\ request.v[kd[1]] = kd[2])

\* the last-write half of C11: a setParameter that returned has stored its
\* value under its key, whatever was stored there
LastWriteStored ==
    (last'.op = "setParameter" /\ last'.err = "") =>
        /\ last'.arg[1] \in DOMAIN ctx'.parameters
        /\ ctx'.parameters[last'.arg[1]] = last'.arg[2]

\* C11, as claimed: for every entry (k, v) of the parameter map the built
\* request has request[k] = v, whatever the template or the earlier steps of
\* the build put there; a key set several times holds the last value written.
C11_ParametersWinAsClaimed ==
    [][/\ last'.op = "buildRequest" =>
            \A k \in DOMAIN ctx.parameters :
                /\ k \in DOMAIN request'.v
                /\ request'.v[k] = ctx.parameters[k]
       /\ LastWriteStored
      ]_vars

\* C11, amended: for every entry (k, v) of the parameter map whose value is
\* not null the built request has request[k] = v with the null-valued fields
\* inside v removed, whatever the template or the earlier steps of the build
\* put there; an entry whose value is null leaves the request without the
\* key; a key set several times holds the last value written.
C11_ParametersWin ==
    [][/\ last'.op = "buildRequest" =>
            \A k \in DOMAIN ctx.parameters :
                IF ctx.parameters[k].t = "null"
                THEN k \notin DOMAIN request'.v
                ELSE /\ k \in DOMAIN request'.v
                     /\ request'.v[k] = removeNullsRecursive(ctx.parameters[k])
       /\ LastWriteStored
      ]_vars

\* a request built over a template that mentions temperature, with another
\* temperature stored
C11_Witness ==
    /\ Built
    /\ "temperature" \in DOMAIN schema.request_template.v
    /\ "temperature" \in DOMAIN ctx.parameters
    /\ ctx.parameters["temperature"] = Num(2)
    /\ request.v["temperature"] = Num(2)

\* reset() has emptied the messages, the system message and the parameters
ResetCleared(c) ==
    /\ c.messages = << >>
    /\ c.systemMessage = Undef
    /\ c.parameters = EmptyMap

\* C12, as claimed: reset() leaves the message sequence empty, the system
\* message unset, the parameter map empty and no model set.
C12_ResetClearsAsClaimed ==
    last.op = "reset" => (ResetCleared(ctx) /\ ctx.modelName = << >>)

\* C12, amended: reset() leaves the message sequence empty, the system
\* message unset and the parameter map empty, and sets the model back to the
\* schema's default model (no model only when the schema declares no default).
C12_ResetClears ==
    last.op = "reset" => (ResetCleared(ctx) /\ ctx.modelName = schema.models.default)

\* a keyed Context over a schema with a default model was reset: the model
\* is the default again and the key is still there
C12_Witness ==
    /\ last.op = "reset"
    /\ ctx.modelName = ModelA
    /\ ctx.apiKey # << >>

\* c without its key
Keyless(sch, c) == [c EXCEPT !.apiKey = << >>, !.headers = buildHeaders(sch, << >>)]

\* C13: a Context starts keyless; setApiKey with a non-empty key makes it
\* keyed, also when it is keyed already; no operation returns a keyed Context
\* to keyless; buildRequest and addMessage do in a keyed Context what they do
\* in a keyless one.
C13_KeyStateMachine ==
    /\ ~hasApiKey(ctx)
    /\ [][/\ hasApiKey(ctx) => hasApiKey(ctx')
          /\ (last'.op = "setApiKey" /\ last'.arg # << >>) =>
                (last'.err = "" /\ ctx'.apiKey = last'.arg)
          /\ (last'.op = "setApiKey" /\ last'.arg = << >>) =>
                (last'.err = "ValidationException" /\ ctx'.apiKey = ctx.apiKey)
          /\ last'.op = "buildRequest" =>
                (/\ last'.err = ""
                 /\ request' = buildRequest(schema, config, Keyless(schema, ctx),
                                            last'.arg).request)
          /\ last'.op = "addMessage" =>
                LET a == last'.arg
                    r == addMessage(schema, config, Keyless(schema, ctx),
                                    a[1], a[2], a[3], a[4])
                IN  last'.err = r.err /\ ctx'.messages = r.val.messages
         ]_vars

\* a keyed Context took the export of a keyless one and is still keyed
C13_Witness ==
    /\ last.op = "importState" /\ last.arg = ExportedEmpty
    /\ hasApiKey(ctx)

\* C16: with validation enabled, addMessage with both mediaType and mediaData
\* on a schema without multimodal support raises ValidationException and
\* appends nothing, whether the message structure has flat-string content or
\* an array of content blocks.
C16_MediaRefused ==
    [][(/\ last'.op = "addMessage" /\ config.enableValidation
        /\ WithMedia(last'.arg) /\ ~supportsMultimodal(schema)) =>
            (last'.err = "ValidationException" /\ ctx'.messages = ctx.messages)
      ]_vars

\* C19: with validation disabled, setModel, setSystemMessage, setParameter
\* and addMessage never raise ValidationException, and what they were given
\* is stored: an unlisted model, a system message on a schema without
\* system-message support, a null or constraint-violating parameter value, a
\* role outside message_roles.
C19_ValidationDisabled ==
    [][~config.enableValidation =>
        /\ last'.op \in {"setModel", "setSystemMessage", "setParameter", "addMessage"}
              => last'.err # "ValidationException"
        /\ last'.op = "setModel" => ctx'.modelName = last'.arg
        /\ last'.op = "setSystemMessage" => ctx'.systemMessage = Str(last'.arg)
        /\ last'.op = "setParameter" =>
              /\ last'.arg[1] \in DOMAIN ctx'.parameters
              /\ ctx'.parameters[last'.arg[1]] = last'.arg[2]
        /\ (last'.op = "addMessage" /\ last'.err = "") =>
              AppendedOne(ctx, ctx', last'.arg)
      ]_vars

\* without validation, a model the schema does not list was stored
C19_Witness ==
    /\ ~config.enableValidation
    /\ last.op = "setModel" /\ last.arg = ModelUnlisted
    /\ last.err = "" /\ ctx.modelName = ModelUnlisted

\* a step is numeric: a number, or a string of digits only
IsNumericStep(key) == key.t = "num" \/ IsDigitsOnly(key.v)

\* one step of the resolver as the specification has it: a numeric step needs
\* an array and an index within 0 <= i < length, a key step needs a keyed
\* mapping that holds the key
StepAsSpecified(current, key) ==
    IF IsNumericStep(key)
    THEN LET index == IF key.t = "num" THEN key.v ELSE ParseInt(key.v)
         IN  IF current.t = "arr" /\ 0 <= index /\ index < Len(current.v)
             THEN Returns(current.v[index + 1])
             ELSE Throws("PathError")
    ELSE IF current.t = "obj" /\ PropertyName(key.v) \in DOMAIN current.v
         THEN Returns(current.v[PropertyName(key.v)])
         ELSE Throws("PathError")

RECURSIVE PathAsSpecified(_, _, _)
PathAsSpecified(current, path, i) ==
    IF i > Len(path) THEN Returns(current)
    ELSE LET r == StepAsSpecified(current, path[i])
         IN  IF r.err # "" THEN r ELSE PathAsSpecified(r.val, path, i + 1)

\* C14: resolvePath(obj, path) returns the value reached when every numeric
\* step meets an array with the index within 0 <= i < length and every key
\* step meets a keyed mapping that holds the key, and fails with an error in
\* every other case.
C14_PathResolution ==
    last.op = "resolvePath" =>
        LET expected == PathAsSpecified(last.arg[1], last.arg[2], 1)
        IN  /\ (last.err = "") <=> (expected.err = "")
            /\ expected.err = "" => returned = expected.val

\* C15: for a response that holds a text at the schema's text path,
\* extractTextResponse returns that text unchanged; for a response in which
\* a step of the text path cannot be resolved it raises an error and returns
\* no string.
C15_ExtractText ==
    last.op = "extractTextResponse" =>
        LET held == PathAsSpecified(last.arg, schema.text_path, 1)
        IN  /\ (held.err = "" /\ held.val.t = "str") =>
                  (last.err = "" /\ returned = held.val)
            /\ held.err # "" => (last.err # "" /\ returned = Undef)

\* the text was read back through a path with a key, an index and a key
C15_Witness ==
    /\ last.op = "extractTextResponse" /\ last.err = ""
    /\ Len(schema.text_path) = 3
    /\ PathAsSpecified(last.arg, schema.text_path, 1) = Returns(Str(<<"h", "i">>))
    /\ returned = Str(<<"h", "i">>)

\* the part k of a block, Undef when the block is no object or has no such part
Part(block, k) ==
    IF block.t = "obj" /\ k \in DOMAIN block.v THEN block.v[k] ELSE Undef

\* the document has what the specification requires of a schema: provider
\* identity, an API block with a non-empty endpoint, a request template, a
\* message format with a structure and at least one content type, a response
\* format whose success block has a non-empty text path
Complete(document) ==
    /\ {"provider", "api", "request_template", "message_format", "response_format"}
          \subseteq DOMAIN document.v
    /\ Truthy(Part(document.v["api"], "endpoint"))
    /\ Part(document.v["message_format"], "structure") # Undef
    /\ LET types == Part(document.v["message_format"], "content_types")
       IN  types.t = "obj" /\ DOMAIN types.v # {}
    /\ LET path == Part(Part(document.v["response_format"], "success"), "text_path")
       IN  path.t = "arr" /\ Len(path.v) > 0

\* C17: constructing a Context over a schema document fails with
\* SchemaException, and leaves no Context, whenever the document lacks one of
\* the required parts (an empty content_types object and an empty text_path
\* count as lacking); it succeeds when all are there.
C17_SchemaValidated ==
    (last.op = "new" /\ last.arg.t = "obj") =>
        IF Complete(last.arg)
        THEN last.err = "" /\ ctx # Undef
        ELSE last.err = "SchemaException" /\ ctx = Undef

\* the schema as it was when the Context was constructed
SchemaAsBuilt == SchemaNamed(built[1])

\* C18: after construction, a change of the schema document's request
\* template, message structure or content templates changes neither the
\* stored messages nor the messages and requests compiled afterwards: they
\* are what the document as it was at construction gives.
C18_TemplatesCloned ==
    [][/\ last'.op = "editSchema" => ctx' = ctx
       /\ last'.op = "addMessage" =>
            LET a == last'.arg
                r == addMessage(SchemaAsBuilt, config, ctx, a[1], a[2], a[3], a[4])
            IN  last'.err = r.err /\ ctx' = r.val
       /\ last'.op = "buildRequest" =>
            request' = buildRequest(SchemaAsBuilt, config, ctx, last'.arg).request
      ]_vars

\* C20: no call on one Context changes the other Context's messages,
\* parameters, headers, model, system message or API key, in any interleaving
\* of calls on the two, also after the second has imported the state the
\* first exported.
C20_ContextsIndependent ==
    [][/\ last'.arg[1] = 1 => peer'.c = peer.c
       /\ last'.arg[1] = 2 => ctx' = ctx
      ]_vars

\* C21: two consecutive calls buildRequest(false), with no mutator called in
\* between, return structurally identical objects: in the state the first
\* call leaves, the second call returns what the first returned.
C21_BuildRequestIdempotent ==
    (Built /\ last.arg = FALSE) =>
        buildRequest(schema, config, ctx, FALSE).request = request

\* a first call that stripped a stored parameter value and a stored message,
\* and put the system message in front
C21_Witness ==
    /\ Built /\ last.arg = FALSE
    /\ Len(ctx.messages) > 0
    /\ Truthy(ctx.systemMessage)
    /\ "extra" \in DOMAIN ctx.parameters
    /\ request.v["extra"] = Obj(EmptyMap)
    /\ Len(request.v["messages"].v) = Len(ctx.messages) + 1

\* C29: the object exportState returned is a snapshot: addMessage,
\* setParameter, setModel, setSystemMessage, the clear operations and reset,
\* called on the Context afterwards, leave the messages, parameters, model
\* and system message recorded in it as they were.
C29_ExportIsSnapshot ==
    [][(peer # Undef /\ last'.op # "exportState") =>
            /\ peer'.state.messages = peer.state.messages
            /\ peer'.state.parameters = peer.state.parameters
            /\ peer'.state.modelName = peer.state.modelName
            /\ peer'.state.systemMessage = peer.state.systemMessage
      ]_vars

\* C30: second.importState(first.exportState()) makes the second Context's
\* model, system message, messages, parameters and API key equal to the
\* first's, whatever state the second was in before.
C30_ExportImportRoundTrip ==
    [][last'.op = "importState" =>
            /\ peer'.c.modelName = ctx'.modelName
            /\ peer'.c.systemMessage = ctx'.systemMessage
            /\ peer'.c.messages = ctx'.messages
            /\ peer'.c.parameters = ctx'.parameters
            /\ peer'.c.apiKey = ctx'.apiKey
      ]_vars

\* C27: key store read-your-write: after setApiKeyForProvider(p, k,
\* persistent) for a known provider p, getApiKeyForProvider(p) returns k, for
\* either value of persistent and whatever was set and removed for p before.
C27_ReadYourWrite ==
    [][(last'.op = "setApiKeyForProvider" /\ last'.err = "") =>
            getApiKeyForProvider(keys', last'.arg[1]) = last'.arg[2]
      ]_vars

\* C28: after HyniChat.removeApiKey(provider), whatever key operations came
\* before, getApiKeyForProvider(provider) returns the empty string, so the
\* provider is not among the configured providers.
C28_RemovedKeyIsGone ==
    [][last'.op = "removeApiKey" =>
            /\ getApiKeyForProvider(keys', last'.arg) = << >>
            /\ last'.arg \notin getConfiguredProviders(keys')
      ]_vars

\* C26: for every interleaving of startRecording, stopRecording and the
\* completion of the microphone request: whenever isRecording is false, no
\* microphone stream is held and no MediaRecorder is recording.
C26_NotRecordingHoldsNothing ==
    (asr # Undef /\ ~asr.isRecording) =>
        /\ asr.currentStream = 0
        /\ \A r \in DOMAIN asr.recorders : asr.recorders[r].state # "recording"

\* the delta content of the data event with this JSON text
DeltaOf(text) ==
    IF Len(text) >= 2 /\ text[1] \in {"{", "("} THEN SubSeq(text, 2, Len(text) - 1)
    ELSE << >>

\* the delta contents of the events, concatenated in order
RECURSIVE Concatenated(_)
Concatenated(events) ==
    IF events = << >> THEN << >>
    ELSE DeltaOf(Head(events)) \o Concatenated(Tail(events))

\* C25: the text accumulated from a streamed response equals the in-order
\* concatenation of the delta contents of all data events sent, [DONE]
\* excluded, however the transport cuts the body into chunks.
C25_StreamedTextComplete ==
    (wire # Undef /\ wire.done) =>
        wire.fullText = Concatenated(wire.events)

\* the role of a compiled message
RoleOf(message) == message.v["role"].v

\* C22: in single-provider mode the reply to a request is extracted with and
\* appended to the Context the request's user message was added to and the
\* request was built from, also when the provider selection changes while
\* the request is in flight: no other Context changes when the send settles,
\* and a reply that is stored is stored there.
C22_ReplyToItsContext ==
    [][last'.op = "singleSettled" =>
         \A t \in chat.sends \ chat'.sends :
            /\ \A id \in DOMAIN chat.heap :
                  id # t.context => chat'.heap[id] = chat.heap[id]
            /\ last'.err = "" =>
                  /\ Len(ContextAt(chat', t.context).messages)
                        = Len(ContextAt(chat, t.context).messages) + 1
                  /\ RoleOf(ContextAt(chat', t.context).messages[
                         Len(ContextAt(chat', t.context).messages)]) = assistant
      ]_vars

\* the sends in progress: the single sends waiting for the network and the
\* broadcast waiting for its providers
InProgress(h) ==
    Cardinality({ t \in h.sends : t.kind = "single" })
        + (IF h.broadcasting THEN 1 ELSE 0)

\* C23: at most one send is in progress at any time: isProcessing is true
\* exactly while one is, so it is false again once the send has finished; and
\* a sendMessage called while isProcessing is true adds no message to any
\* Context and issues no request.
C23_OneSendAtATime ==
    /\ [](/\ InProgress(chat) <= 1
          /\ chat.isProcessing <=> (InProgress(chat) = 1)
          /\ (\E t \in chat.sends : t.kind = "provider") => chat.broadcasting)
    /\ [][(last'.op = "sendMessage" /\ chat.isProcessing) =>
              /\ chat'.heap = chat.heap
              /\ chat'.sends = chat.sends
         ]_vars

\* sendMessage was called while a single send was waiting for its reply: the
\* user had selected another provider in the meantime, so the refused call is
\* told from the one that started the send
C23_Witness ==
    /\ last.op = "sendMessage"
    /\ chat.isProcessing
    /\ \E t \in chat.sends :
          /\ t.kind = "single"
          /\ chat.currentContext # 0
          /\ t.context # chat.currentContext
    /\ MessagesHeld(chat, Len(chat.heap)) = 1

\* the messages are user, assistant, user, assistant, ...: every user message
\* is followed by its reply
Alternates(messages) ==
    /\ Len(messages) % 2 = 0
    /\ \A i \in DOMAIN messages :
          RoleOf(messages[i]) = IF i % 2 = 1 THEN user ELSE assistant

\* C24: after any sequence of completed sends, successful or failed, every
\* Context of the page holds a message sequence that alternates user,
\* assistant, ...: a failed send does not leave its unanswered user message.
C24_MessagesAlternate ==
    (chat # Undef /\ ~chat.isProcessing) =>
        \A id \in DOMAIN chat.heap : Alternates(ContextAt(chat, id).messages)

====
